---- MODULE Spec2Model ----
(***************************************************************************)
(* Long-range nonbonded force evaluation of GROMACS                        *)
(* (src/gromacs/mdlib/force.cpp): the per-thread Ewald correction records, *)
(* their clear / dispatch / reduce protocol, the net-charge correction,    *)
(* the reciprocal solvers and the merge into the caller's accumulators.    *)
(***************************************************************************)
EXTENDS Integers, Sequences, FiniteSets, TLC

\* ------------------------------------------------------------------ bounds
MaxThreads == 3      \* largest fr->nthread_ewc explored; records 0..MaxThreads-1 exist
MaxSteps == 2        \* calls of calculateLongRangeNonbondeds per behaviour
MaxVal == 1          \* largest energy / dV/dlambda value an external routine yields
MaxSeed == 2         \* largest seed of a record handed to the stand-alone reduction
MaxCharge == 1       \* largest net charge fr->qsum of the system
NumAtoms == 3        \* md->homenr: the local atoms the correction is split over
MaxClears == 2       \* calls of the stand-alone clear per record

\* ------------------------------------------------------- tensors, records
DIM == 3

Dims == 0 .. (DIM - 1)

Couplings == {"Coul", "Vdw"}

ZeroMat == [i \in Dims |-> [j \in Dims |-> 0]]

\* clear_mat(a): every element of the 3x3 matrix becomes 0
clear_mat(a) == [i \in Dims |-> [j \in Dims |-> 0]]

\* m_add(a, b, dest): dest[i][j] = a[i][j] + b[i][j]
m_add(a, b) == [i \in Dims |-> [j \in Dims |-> a[i][j] + b[i][j]]]

\* a matrix with nine different elements, scaled by k
BaseMat(k) == [i \in Dims |-> [j \in Dims |-> k * (DIM * i + j + 1)]]

\* the unit matrix scaled by k (a volume-derivative virial)
DiagMat(k) == [i \in Dims |-> [j \in Dims |-> IF i = j THEN k ELSE 0]]

Threads == 0 .. (MaxThreads - 1)

ZeroRecord ==
    [Vcorr_q |-> 0, Vcorr_lj |-> 0, dvdl |-> [c \in Couplings |-> 0],
     vir_q |-> ZeroMat, vir_lj |-> ZeroMat]

\* a record all of whose fields differ from one another, from one seed
SeedRecord(k) ==
    [Vcorr_q |-> k, Vcorr_lj |-> 2 * k,
     dvdl |-> [c \in Couplings |-> IF c = "Coul" THEN 3 * k ELSE 5 * k],
     vir_q |-> BaseMat(k), vir_lj |-> BaseMat(-k)]

\* mutant: the clear forgets the LJ virial
clearEwaldThreadOutput_keepsLjVirial(r) ==
    [r EXCEPT !.Vcorr_q = 0, !.Vcorr_lj = 0,
              !.dvdl["Coul"] = 0, !.dvdl["Vdw"] = 0,
              !.vir_q = clear_mat(r.vir_q)]

\* mutant: the clear forgets the Coulomb virial
clearEwaldThreadOutput_keepsVirial(r) ==
    [r EXCEPT !.Vcorr_q = 0, !.Vcorr_lj = 0,
              !.dvdl["Coul"] = 0, !.dvdl["Vdw"] = 0,
              !.vir_lj = clear_mat(r.vir_lj)]

\* mutant: the clear forgets the Coulomb dV/dlambda
clearEwaldThreadOutput_keepsDvdl(r) ==
    [r EXCEPT !.Vcorr_q = 0, !.Vcorr_lj = 0, !.dvdl["Vdw"] = 0,
              !.vir_q = clear_mat(r.vir_q), !.vir_lj = clear_mat(r.vir_lj)]

clearEwaldThreadOutput(r) ==
    [r EXCEPT !.Vcorr_q = 0, !.Vcorr_lj = 0,
              !.dvdl["Coul"] = 0, !.dvdl["Vdw"] = 0,
              !.vir_q = clear_mat(r.vir_q), !.vir_lj = clear_mat(r.vir_lj)]

\* mutant: the Coulomb correction energy of the source record goes to the LJ energy
reduceBody_energyToLj(dest, src) ==
    [dest EXCEPT !.Vcorr_q = dest.Vcorr_q + src.Vcorr_q,
                 !.Vcorr_lj = dest.Vcorr_lj + src.Vcorr_q,
                 !.dvdl["Coul"] = dest.dvdl["Coul"] + src.dvdl["Coul"],
                 !.dvdl["Vdw"] = dest.dvdl["Vdw"] + src.dvdl["Vdw"],
                 !.vir_q = m_add(dest.vir_q, src.vir_q),
                 !.vir_lj = m_add(dest.vir_lj, src.vir_lj)]

\* mutant: the Coulomb correction energy of the source record is assigned, not added
reduceBody_assignsEnergy(dest, src) ==
    [dest EXCEPT !.Vcorr_q = src.Vcorr_q,
                 !.Vcorr_lj = dest.Vcorr_lj + src.Vcorr_lj,
                 !.dvdl["Coul"] = dest.dvdl["Coul"] + src.dvdl["Coul"],
                 !.dvdl["Vdw"] = dest.dvdl["Vdw"] + src.dvdl["Vdw"],
                 !.vir_q = m_add(dest.vir_q, src.vir_q),
                 !.vir_lj = m_add(dest.vir_lj, src.vir_lj)]

\* mutant: the LJ virial of the source record is added to the wrong tensor
reduceBody_wrongTensor(dest, src) ==
    [dest EXCEPT !.Vcorr_q = dest.Vcorr_q + src.Vcorr_q,
                 !.Vcorr_lj = dest.Vcorr_lj + src.Vcorr_lj,
                 !.dvdl["Coul"] = dest.dvdl["Coul"] + src.dvdl["Coul"],
                 !.dvdl["Vdw"] = dest.dvdl["Vdw"] + src.dvdl["Vdw"],
                 !.vir_q = m_add(dest.vir_q, src.vir_q),
                 !.vir_lj = m_add(dest.vir_lj, src.vir_q)]

\* one iteration of the loop of reduceEwaldThreadOuput: dest += ewc_t[t]
reduceBody(dest, src) ==
    [dest EXCEPT !.Vcorr_q = dest.Vcorr_q + src.Vcorr_q,
                 !.Vcorr_lj = dest.Vcorr_lj + src.Vcorr_lj,
                 !.dvdl["Coul"] = dest.dvdl["Coul"] + src.dvdl["Coul"],
                 !.dvdl["Vdw"] = dest.dvdl["Vdw"] + src.dvdl["Vdw"],
                 !.vir_q = m_add(dest.vir_q, src.vir_q),
                 !.vir_lj = m_add(dest.vir_lj, src.vir_lj)]

\* mutant: the loop of the reduction starts one record late
reduceFirst_two == 1 + 1

\* the first index the loop of reduceEwaldThreadOuput adds
reduceFirst == 1


\* ---------------------------------------------------- run configuration
EelTypes == {"Cut", "Ewald", "PME"}

\* EEL_PME(e): the PME family of electrostatics
EEL_PME(e) == e = "PME"

\* EEL_PME_EWALD(e): PME family or plain Ewald
EEL_PME_EWALD(e) == EEL_PME(e) \/ e = "Ewald"

\* EVDW_PME(v): LJ-PME
EVDW_PME(c) == c.vdwPme

\* haveEwaldSurfaceContribution(ir)
haveEwaldSurfaceContribution(c) == EEL_PME_EWALD(c.eeltype) /\ c.surface

\* line 118: PME is computed on the CPU by this rank
computePmeOnCpu(c) == (EEL_PME(c.eeltype) \/ EVDW_PME(c)) /\ c.pmeCpuRank

\* mutant: the block is entered whether or not the step computes nonbonded forces
longRangeBlockRuns_ignoresStepWork(c, w) ==
    computePmeOnCpu(c) \/ c.eeltype = "Ewald" \/ haveEwaldSurfaceContribution(c)

\* lines 127-128: the guard of the whole long-range block
longRangeBlockRuns(c, w) ==
    (computePmeOnCpu(c) \/ c.eeltype = "Ewald" \/ haveEwaldSurfaceContribution(c))
    /\ w.computeNonbondedForces

Configs ==
    [eeltype : EelTypes, vdwPme : BOOLEAN, pmeCpuRank : BOOLEAN, surface : BOOLEAN,
     n_tpi : {0, 1}, nthread_ewc : 1 .. MaxThreads, qsum : 0 .. MaxCharge]

StepWorks == [computeNonbondedForces : BOOLEAN, stateChanged : BOOLEAN]

\* the inputs of one step: a seed of the coordinates, box and lambda
SysInputs == [x : 0 .. MaxVal]

\* ------------------------------------------------- external computations
RECURSIVE SumOver(_, _, _)
\* the sum of x * (i + 1) over the atoms i in [lo, hi)
SumOver(x, lo, hi) == IF lo >= hi THEN 0 ELSE x * (lo + 1) + SumOver(x, lo + 1, hi)

\* the atom range of thread t out of n
AtomStart(t, n) == (NumAtoms * t) \div n
AtomEnd(t, n) == (NumAtoms * (t + 1)) \div n

\* ewald_LRcorrection(..., nthreads, t, ..., &Vcorr_q, lambda, &dvdl):
\* *Vcorr_q is assigned, *dvdlambda_q is added to
ewald_LRcorrection(r, s, t, n) ==
    [r EXCEPT !.Vcorr_q = SumOver(s.x, AtomStart(t, n), AtomEnd(t, n)),
              !.dvdl["Coul"] = @ + s.x * (AtomEnd(t, n) - AtomStart(t, n))]

\* the volume of the box of the call
BoxVolume(s) == s.x + 1

\* pi/(2 beta^2) times the Coulomb constant, in units that keep the divisions exact
VolScale == 36

\* mutant: the background is charged a self term that does not vanish with Q
ChargeCorrVirial_selfTerm(q, vol) == ((q * q + 1) * VolScale) \div (vol * vol)

\* ewald_charge_correction: what it adds to each diagonal element of the virial,
\* (pi/(2 beta^2 V^2)) Q^2
ChargeCorrVirial(q, vol) == (q * q * VolScale) \div (vol * vol)

\* ewald_charge_correction: the energy it returns, -(pi/(2 beta^2 V)) Q^2
ChargeCorrEnergy(q, vol) == -(vol * ChargeCorrVirial(q, vol))

\* the record after ewaldOutput.Vcorr_q += ewald_charge_correction(..., &dvdl, vir_q);
\* with the same net charge in the A and B states it adds 0 to *dvdlambda
ewald_charge_correction(r, c, s) ==
    [r EXCEPT !.Vcorr_q = @ + ChargeCorrEnergy(c.qsum, BoxVolume(s)),
              !.dvdl["Coul"] = @ + 0,
              !.vir_q = m_add(@, DiagMat(ChargeCorrVirial(c.qsum, BoxVolume(s))))]

\* gmx_pme_do: the mesh energies it returns through &Vlr_q and &Vlr_lj
PmeEnergyQ(c, s) == IF EEL_PME(c.eeltype) THEN s.x + 1 ELSE 0
PmeEnergyLJ(c, s) == IF EVDW_PME(c) THEN s.x + 2 ELSE 0

\* gmx_pme_do: what it adds to ewaldOutput (both virials, both dV/dlambda)
gmx_pme_do(r, c, s) ==
    [r EXCEPT !.vir_q = m_add(@, BaseMat(PmeEnergyQ(c, s))),
              !.vir_lj = m_add(@, BaseMat(PmeEnergyLJ(c, s))),
              !.dvdl["Coul"] = @ + PmeEnergyQ(c, s),
              !.dvdl["Vdw"] = @ + PmeEnergyLJ(c, s)]

\* gmx_pme_calc_energy: the grid energy of the test molecule
gmx_pme_calc_energy(s) == s.x + 3

\* do_ewald: the energy it returns, and what it adds to vir_q and dvdl[Coul]
EwaldEnergy(s) == s.x + 4
do_ewald(r, s) ==
    [r EXCEPT !.vir_q = m_add(@, BaseMat(EwaldEnergy(s))),
              !.dvdl["Coul"] = @ + EwaldEnergy(s)]

\* gmx_ewald_tab_t as constructed: no table entries yet
EmptyTable == [size |-> 0, fill |-> 0]

\* do_ewald: the table it is handed is resized to the atoms and refilled from the
\* coordinates of the call
ewaldTableAfter(tab, s) == [size |-> NumAtoms, fill |-> s.x + 1]

\* ------------------------------------------------------ wall-cycle counters
\* the start/stop pairs of a timing run and the largest cycle count read
MaxPairs == 2
MaxCycles == 4

WallCycleCounters == {"Run", "Step"}
WallCycleSubCounters == {"DDGrid", "DDRedist", "NonbondedClear", "NonbondedKernel", "NonbondedFep"}
CounterNames == WallCycleCounters \cup WallCycleSubCounters

\* wallcycle_init: every counter has no calls and no cycles
wallcycle_init == [name \in CounterNames |-> [start |-> 0, c |-> 0, n |-> 0]]

\* wallcycle_start(wc, ewc) with the cycle count read by gmx_cycles_read
wallcycle_start(wc, ewc, cycle) == [wc EXCEPT ![ewc].start = cycle]

\* wallcycle_stop(wc, ewc): the cycles since the start are added, the call counted
wallcycle_stop_uncounted(wc, ewc, cycle) ==
    [wc EXCEPT ![ewc].c = @ + (cycle - wc[ewc].start)]
wallcycle_stop(wc, ewc, cycle) ==
    [wc EXCEPT ![ewc].c = @ + (cycle - wc[ewc].start), ![ewc].n = @ + 1]

\* wallcycle_get(wc, ewc, &n, &c)
wallcycle_get(wc, ewc) == [n |-> wc[ewc].n, c |-> wc[ewc].c]

\* wallcycle_sub_start / wallcycle_sub_stop / wallcycle_sub_get: the same on
\* the sub-counters when the build has them, else nothing
wallcycle_sub_start(wc, ewcs, cycle, useSub) ==
    IF useSub THEN wallcycle_start(wc, ewcs, cycle) ELSE wc
wallcycle_sub_stop(wc, ewcs, cycle, useSub) ==
    IF useSub THEN wallcycle_stop(wc, ewcs, cycle) ELSE wc
wallcycle_sub_get(wc, ewcs) == wallcycle_get(wc, ewcs)

\* the two tests of the timing test file and their counters
TimingTests == {"RunWallCycle", "RunWallCycleSub"}
probeOf(test) == IF test = "RunWallCycle" THEN "Run" ELSE "DDRedist"
refOf(test) == IF test = "RunWallCycle" THEN "Step" ELSE "DDGrid"

VARIABLES
    useCycleSubcounters,     \* GMX_CYCLE_SUBCOUNTERS of the build
    wcycle,                  \* the gmx_wallcycle counters
    cycleClock,              \* the cycle count gmx_cycles_read last returned
    wcLog,                   \* history: the counter starts and stops
    timingTest,              \* the timing test that runs
    tpc,                     \* where the timing test is
    pairs                    \* history: the start/stop pairs completed

timingVars == <<useCycleSubcounters, wcycle, cycleClock, wcLog, timingTest, tpc, pairs>>

\* --------------------------------------------------------- nbnxn_kernel_cpu
\* the largest number of pair lists
MaxLists == 2

Lists == 0 .. MaxLists - 1

\* the arguments of nbnxn_kernel_cpu: the number of CPU pair lists, clearF,
\* stepWork.computeEnergy and whether there is one energy group pair
KernelConfigs ==
    [numLists : 0 .. MaxLists, clearF : BOOLEAN, computeEnergy : BOOLEAN,
     singleEnergyGroup : BOOLEAN]

\* the output buffer of one list, as left by earlier steps
StaleOutput == [f |-> 1, fshift |-> 1, Vvdw |-> 1, Vc |-> 1]

\* lines 270-275: clearForceBuffer and clear_fshift when clearF is set
clearOutput(out, clearF) ==
    IF clearF THEN [out EXCEPT !.f = 0, !.fshift = 0] ELSE out

\* what the kernel of list nb adds to forces and energies
kernelForce(nb) == nb + 1
kernelEnergy(nb) == nb + 1

\* lines 286-376: the kernel of list nb; the energy kernels start from
\* cleared energies (lines 310-311, 334)
runKernel(out, nb, computeEnergy) ==
    IF ~computeEnergy
    THEN [out EXCEPT !.f = @ + kernelForce(nb), !.fshift = @ + kernelForce(nb)]
    ELSE [out EXCEPT !.f = @ + kernelForce(nb), !.fshift = @ + kernelForce(nb),
                     !.Vvdw = kernelEnergy(nb), !.Vc = kernelEnergy(nb)]

\* reduce_energies_over_lists: the energies of the first nlist lists are
\* added to the caller's energies
RECURSIVE reduce_energies_over_lists(_, _, _)
reduce_energies_over_lists(out, nlist, v) ==
    IF nlist = 0 THEN v
    ELSE reduce_energies_over_lists(
             out, nlist - 1,
             [vVdw |-> v.vVdw + out[nlist - 1].Vvdw,
              vCoulomb |-> v.vCoulomb + out[nlist - 1].Vc])

\* line 277: the iteration that switches the counters
switchesCounters(nb) == nb = 0

VARIABLES
    kernelCfg,               \* the arguments of nbnxn_kernel_cpu
    kpc,                     \* where the calling thread is in nbnxn_kernel_cpu
    kth,                     \* per loop iteration nb: where it is
    nbat_out,                \* nbat->out: the output buffers of the lists
    vOut                     \* the energies vVdw, vCoulomb of the caller

kernelVars == <<kernelCfg, kpc, kth, nbat_out, vOut>>

KernelIdle ==
    /\ kpc = "idle"
    /\ kth = [nb \in Lists |-> "idle"]
    /\ nbat_out = [nb \in Lists |-> StaleOutput]
    /\ vOut = [vVdw |-> 0, vCoulomb |-> 0]

\* ------------------------------------------------ dispatchFreeEnergyKernel
\* the largest number of foreign lambdas
MaxLambdas == 2

CouplingTypes == {"Vdw", "Coul"}

\* fepvals->all_lambda[j][k], the k-th foreign lambda of coupling type j
all_lambda == [j \in CouplingTypes |-> [k \in 0 .. MaxLambdas - 1 |-> k + 1]]

\* the current lambda of the step
CurrentLambda == [j \in CouplingTypes |-> 0]

\* the arguments of dispatchFreeEnergyKernel: the free-energy pair lists
\* (as many as threads; when the first is empty all are), the free-energy
\* parameters and the work of the step
FepConfigs ==
    {c \in [haveFep : BOOLEAN, numLists : 1 .. MaxLists, nrj : [Lists -> 0 .. 1],
            sc_alpha : 0 .. 1, n_lambda : 0 .. MaxLambdas,
            computeForces : BOOLEAN, computeVirial : BOOLEAN,
            computeEnergy : BOOLEAN, computeDhdl : BOOLEAN] :
        /\ \A th \in Lists : th >= c.numLists => c.nrj[th] = 0
        /\ c.nrj[0] = 0 => \A th \in Lists : c.nrj[th] = 0}

\* lines 512-515: nothing to do
nothingToDo(c) == ~c.haveFep \/ c.nrj[0] = 0

\* lines 517-532: the flags of the kernel call at the current lambda
donb_flags(c) ==
    {"GMX_NONBONDED_DO_SR"}
    \cup (IF c.computeForces THEN {"GMX_NONBONDED_DO_FORCE"} ELSE {})
    \cup (IF c.computeVirial THEN {"GMX_NONBONDED_DO_SHIFTFORCE"} ELSE {})
    \cup (IF c.computeEnergy THEN {"GMX_NONBONDED_DO_POTENTIAL"} ELSE {})

\* lines 596-597: the flags of the kernel calls at the foreign lambdas
foreignKernelFlags_withForces(flags) ==
    flags \cup {"GMX_NONBONDED_DO_FOREIGNLAMBDA"}
foreignKernelFlags(flags) ==
    (flags \ {"GMX_NONBONDED_DO_FORCE", "GMX_NONBONDED_DO_SHIFTFORCE"})
    \cup {"GMX_NONBONDED_DO_FOREIGNLAMBDA"}

\* line 593: whether the energies at the foreign lambdas are recalculated
recalculatesForeign(c) == c.n_lambda > 0 /\ c.computeDhdl /\ c.sc_alpha # 0

\* lines 608-611: the lambdas of index i
lam_i(i, lambda) ==
    [j \in CouplingTypes |-> IF i = 0 THEN lambda[j] ELSE all_lambda[j][i - 1]]

\* the energy data as left by the code that ran before
StartEnerd(c) ==
    [dvdl_lin |-> [j \in CouplingTypes |-> 1],
     dvdl_nonlin |-> [j \in CouplingTypes |-> 1],
     grpp |-> [CoulombSR |-> 1, LJSR |-> 1],
     foreign_grpp |-> [CoulombSR |-> 1, LJSR |-> 1],
     foreign_term |-> 1,
     foreignLambdaTerms |-> [i \in 0 .. c.n_lambda |-> [energy |-> 0, dhdl |-> 0]]]

\* what the free-energy kernel of list th adds at lambda, per coupling type
\* to dV/dlambda and per term to the energies
kernelDvdlOf(c, th, lambda, j) == c.nrj[th] * (th + 1 + lambda[j])
kernelEnergyOf(c, th, lambda) == c.nrj[th] * (th + 2 + lambda["Coul"])

\* whether a kernel call with these flags adds energies
addsEnergy(flags) ==
    \/ "GMX_NONBONDED_DO_POTENTIAL" \in flags
    \/ "GMX_NONBONDED_DO_FOREIGNLAMBDA" \in flags

\* gmx_nb_free_energy_kernel of list th on the dV/dlambda buffer
kernelOnDvdl(c, th, lambda, dvdl) ==
    [j \in CouplingTypes |-> dvdl[j] + kernelDvdlOf(c, th, lambda, j)]

\* gmx_nb_free_energy_kernel of list th on a pair of energy group terms
kernelOnEnergy(c, th, flags, lambda, grpp) ==
    IF addsEnergy(flags)
    THEN [CoulombSR |-> grpp.CoulombSR + kernelEnergyOf(c, th, lambda),
          LJSR |-> grpp.LJSR + kernelEnergyOf(c, th, lambda)]
    ELSE grpp

\* gmx_nb_free_energy_kernel of list th on the forces and shift forces
kernelOnForce(c, th, flags, fw) ==
    [f |-> fw.f + IF "GMX_NONBONDED_DO_FORCE" \in flags THEN c.nrj[th] ELSE 0,
     fshift |-> fw.fshift
                + IF "GMX_NONBONDED_DO_SHIFTFORCE" \in flags THEN c.nrj[th] ELSE 0]

\* lines 575-588: the accumulator of the kernel's dV/dlambda
addDvdl_both(e, dvdl, sc_alpha) ==
    [e EXCEPT !.dvdl_nonlin = [j \in CouplingTypes |-> @[j] + dvdl[j]],
              !.dvdl_lin = [j \in CouplingTypes |-> @[j] + dvdl[j]]]
addDvdl(e, dvdl, sc_alpha) ==
    IF sc_alpha # 0
    THEN [e EXCEPT !.dvdl_nonlin = [j \in CouplingTypes |-> @[j] + dvdl[j]]]
    ELSE [e EXCEPT !.dvdl_lin = [j \in CouplingTypes |-> @[j] + dvdl[j]]]

\* reset_foreign_enerdata: the foreign terms and group pair terms are zeroed
reset_foreign_enerdata(e) ==
    [e EXCEPT !.foreign_grpp = [CoulombSR |-> 0, LJSR |-> 0], !.foreign_term = 0]

\* sum_epot: the potential energy is the sum of the group pair terms
sum_epot(e) ==
    [e EXCEPT !.foreign_term = e.foreign_grpp.CoulombSR + e.foreign_grpp.LJSR]

\* foreignLambdaTerms.accumulate(i, energy, dhdl)
accumulate(e, i, energy, dhdl) ==
    [e EXCEPT !.foreignLambdaTerms[i] =
                  [energy |-> @.energy + energy, dhdl |-> @.dhdl + dhdl]]

VARIABLES
    fepCfg,                  \* the arguments of dispatchFreeEnergyKernel
    fpc,                     \* where the calling thread is
    fth,                     \* per list th: where its loop iteration is
    fi,                      \* the index i of the foreign lambda loop
    dvdl_nb,                 \* the dV/dlambda buffer of the kernels
    kernelFlags,             \* the flags passed to the kernels
    kernelLambda,            \* the lambdas passed to the kernels
    fepEnerd,                \* enerd: the energy data
    forceWithShiftForces,    \* the force output
    kernelCalls,             \* the kernel calls made: pass, list, flags, lambda
    accumulated              \* the calls of foreignLambdaTerms.accumulate

fepVars == <<fepCfg, fpc, fth, fi, dvdl_nb, kernelFlags, kernelLambda, fepEnerd,
             forceWithShiftForces, kernelCalls, accumulated>>

FepIdle ==
    /\ fpc = "idle"
    /\ fth = [th \in Lists |-> "idle"]
    /\ fi = 0
    /\ dvdl_nb = [j \in CouplingTypes |-> 0]
    /\ kernelFlags = {}
    /\ kernelLambda = CurrentLambda
    /\ fepEnerd = StartEnerd(fepCfg)
    /\ forceWithShiftForces = [f |-> 0, fshift |-> 0]
    /\ kernelCalls = {}
    /\ accumulated = <<>>

\* the free-energy dispatch of a run without perturbation
NoFep ==
    [haveFep |-> FALSE, numLists |-> 1, nrj |-> [th \in Lists |-> 0],
     sc_alpha |-> 0, n_lambda |-> 0, computeForces |-> TRUE,
     computeVirial |-> FALSE, computeEnergy |-> FALSE, computeDhdl |-> FALSE]

nbVars == <<timingVars, kernelVars, fepVars>>

\* no counter was used yet
TimingIdle ==
    /\ wcycle = wallcycle_init
    /\ cycleClock = 0
    /\ wcLog = <<>>
    /\ tpc = "idle"
    /\ pairs = 0

NbIdle ==
    /\ useCycleSubcounters = TRUE
    /\ timingTest = "RunWallCycle"
    /\ TimingIdle
    /\ kernelCfg = [numLists |-> 1, clearF |-> TRUE, computeEnergy |-> FALSE,
                    singleEnergyGroup |-> TRUE]
    /\ KernelIdle
    /\ fepCfg = NoFep
    /\ FepIdle

\* ------------------------------------------ StatePropagatorData::Element
\* the steps of the run (init_step is 0) and the output intervals
MaxSimStep == 2
MaxInterval == 2

SimSteps == 0 .. MaxSimStep
Intervals == 0 .. MaxInterval
OnOffIntervals == {0, MaxInterval}

\* do_per_step(step, nstep): step is a multiple of a non-zero interval
do_per_step(step, nstep) == nstep # 0 /\ step % nstep = 0

\* the TNG output intervals held by the output files
Outfs ==
    { [tng_box |-> bl[1], tng_lambda |-> bl[1],
       tng_compressed_box |-> bl[2], tng_compressed_lambda |-> bl[2]] :
      bl \in {<<0, 0>>, <<MaxInterval, 0>>, <<0, MaxInterval>>} }

mdoutf_get_tng_box_output_interval(outf) == outf.tng_box
mdoutf_get_tng_lambda_output_interval(outf) == outf.tng_lambda
mdoutf_get_tng_compressed_box_output_interval(outf) == outf.tng_compressed_box
mdoutf_get_tng_compressed_lambda_output_interval(outf) == outf.tng_compressed_lambda

\* lines 396-429 of write: the output flags due at currentStep
mdof_flags(p, currentStep) ==
    (IF do_per_step(currentStep, p.nstxout_) THEN {"MDOF_X"} ELSE {})
    \cup (IF do_per_step(currentStep, p.nstvout_) THEN {"MDOF_V"} ELSE {})
    \cup (IF do_per_step(currentStep, p.nstfout_) THEN {"MDOF_F"} ELSE {})
    \cup (IF do_per_step(currentStep, p.nstxout_compressed_)
          THEN {"MDOF_X_COMPRESSED"} ELSE {})
    \cup (IF do_per_step(currentStep, mdoutf_get_tng_box_output_interval(p.outf))
          THEN {"MDOF_BOX"} ELSE {})
    \cup (IF do_per_step(currentStep, mdoutf_get_tng_lambda_output_interval(p.outf))
          THEN {"MDOF_LAMBDA"} ELSE {})
    \cup (IF do_per_step(currentStep, mdoutf_get_tng_compressed_box_output_interval(p.outf))
          THEN {"MDOF_BOX_COMPRESSED"} ELSE {})
    \cup (IF do_per_step(currentStep, mdoutf_get_tng_compressed_lambda_output_interval(p.outf))
          THEN {"MDOF_LAMBDA_COMPRESSED"} ELSE {})

\* the arguments of the Element constructor (lines 678-709) and the free
\* energy data set by setFreeEnergyPerturbationData (lines 710-713)
ElementParams ==
    [nstxout_ : Intervals, nstvout_ : Intervals,
     nstfout_ : OnOffIntervals, nstxout_compressed_ : OnOffIntervals,
     outf : Outfs,
     writeFinalConfiguration_ : BOOLEAN,
     lastPlannedStep_ : SimSteps,
     freeEnergyPerturbationData_ : BOOLEAN]

\* an element that writes nothing, for the runs that are not about it
QuietElement ==
    [nstxout_ |-> 0, nstvout_ |-> 0, nstfout_ |-> 0, nstxout_compressed_ |-> 0,
     outf |-> [tng_box |-> 0, tng_lambda |-> 0,
               tng_compressed_box |-> 0, tng_compressed_lambda |-> 0],
     writeFinalConfiguration_ |-> FALSE,
     lastPlannedStep_ |-> 0,
     freeEnergyPerturbationData_ |-> FALSE]

\* the trajectory signaller: a step is a state writing step when an output is due
isStateWritingStep(p, step) == mdof_flags(p, step) # {}

\* line 350 of scheduleTask: saveState is registered for this step
savesAtStep_lastOnly(step, writeOut, last, writeFinal) == step = last /\ writeFinal
savesAtStep(step, writeOut, last, writeFinal) ==
    step = writeOut \/ (step = last /\ writeFinal)

\* line 454 of write: the backup is released after it was written
releasesBackup_never(currentStep, last, regularEnd) == FALSE
releasesBackup_always(currentStep, last, regularEnd) == TRUE
releasesBackup(currentStep, last, regularEnd) == currentStep # last \/ ~regularEnd

\* lines 359-367 of saveState: the copy of the local state of a step
localState(step, fep) == [step |-> step, lambda |-> fep]

\* a registered run function; step is the step it was registered for
Task(fn, step, writeTrajectory) ==
    [fn |-> fn, step |-> step, writeTrajectory |-> writeTrajectory]

\* lines 342-344 of scheduleTask: a pending velocity reset is taken
pendingAfterSchedule_kept(pending) == pending
pendingAfterSchedule(pending) == IF pending THEN FALSE ELSE pending

\* lines 342-353 of scheduleTask: the run functions registered for a step
elementTasks(step, vvReset, writeOut, last, writeFinal) ==
    (IF vvReset THEN <<Task("resetVelocities", step, FALSE)>> ELSE <<>>)
    \o <<Task("copyPosition", step, FALSE)>>
    \o (IF savesAtStep(step, writeOut, last, writeFinal)
        THEN <<Task("saveState", step, FALSE)>> ELSE <<>>)

\* the trajectory writer's run function of a step: none, or a call of the
\* registered callback with writeTrajectory; a state writing step has one
\* with writeTrajectory set
writerTasks(p, step) ==
    IF isStateWritingStep(p, step)
    THEN {<<Task("write", step, TRUE)>>}
    ELSE {<<>>, <<Task("write", step, FALSE)>>, <<Task("write", step, TRUE)>>}

\* ------------------------------------------------ StatePropagatorData
\* the local atoms, the domain decompositions before the run and the
\* position values
MaxLocalAtoms == 3
MaxDomDec == 2
MaxPos == 1

\* a vector of per-atom values, indexed from 0
Vector(n, val) == [i \in 0 .. n - 1 |-> val]
EmptyVector == [i \in {} |-> 0]

\* an RVec with the same value in every dimension
RVec(val) == [m \in Dims |-> val]

\* the t_state a domain decomposition hands to setLocalState; every
\* decomposition has its own positions, velocities, box and count
LocalStateOf(k, n) ==
    [natoms |-> n, x |-> Vector(n, k % (MaxPos + 1)), v |-> Vector(n, RVec(k + 1)),
     box |-> k, ddp_count |-> k]
LocalStates ==
    {LocalStateOf(k, n) : k \in 1 .. MaxDomDec, n \in {MaxLocalAtoms - 1, MaxLocalAtoms}}

\* lines 120-129: the global state the constructor copies without domain
\* decomposition
GlobalState == LocalStateOf(0, MaxLocalAtoms)

\* a propagator changed the velocities: no decomposition has these values
propagated(v) == [i \in DOMAIN v |-> [m \in Dims |-> v[i][m] + MaxDomDec + 2]]
isPropagated(v) == \E i \in DOMAIN v : \E m \in Dims : v[i][m] > MaxDomDec + 1

\* the commrec: whether the run uses domain decomposition, and whether this
\* rank is the master; without domain decomposition the one rank is
Commrecs ==
    {c \in [dd : BOOLEAN, master : BOOLEAN] : ~c.dd => c.master}
SingleRank == [dd |-> FALSE, master |-> TRUE]

\* the particle types and the freeze groups of the home atoms (mdatoms) and
\* the frozen dimensions of the groups (inputrec->opts.nFreeze); cFREEZE is
\* EmptyVector when there is no freeze group; group 0 of the other atoms
\* has no frozen dimension, group 1 is frozen in none, in y or in all
FreezeGroups == 0 .. 1
FrozenDims == {{}, {1}, Dims}
MdAtoms(homenr) ==
    [ptype : [0 .. homenr - 1 -> {"Atom", "Shell"}],
     cFREEZE : {EmptyVector} \cup [0 .. homenr - 1 -> FreezeGroups]]
FreezeOptions ==
    {[g \in FreezeGroups |-> [m \in Dims |-> g = 1 /\ m \in frozen]] : frozen \in FrozenDims}
NoSpecialAtoms(homenr) ==
    [ptype |-> Vector(homenr, "Atom"), cFREEZE |-> EmptyVector]

\* lines 147-164: the velocities of shells and of frozen dimensions are
\* set to zero
zeroedVelocities(v, mdatoms, nFreeze) ==
    [i \in DOMAIN v |->
        IF mdatoms.ptype[i] = "Shell"
        THEN RVec(0)
        ELSE IF mdatoms.cFREEZE # EmptyVector
        THEN [m \in Dims |-> IF nFreeze[mdatoms.cFREEZE[i]][m] THEN 0 ELSE v[i][m]]
        ELSE v[i]]

\* lines 143-166: the velocities the constructor leaves
constructedVelocities(v, bContinuation, stateHasVelocities, mdatoms, nFreeze) ==
    IF ~bContinuation /\ stateHasVelocities
    THEN zeroedVelocities(v, mdatoms, nFreeze)
    ELSE v

\* lines 104, 143, 168-171: the reset is pending after construction
constructedPending(bContinuation, isVV) == ~bContinuation /\ isVV

\* the content of a checkpoint of the system: numAtoms, positions,
\* velocities, box and ddpCount
CheckpointOf(k) ==
    [numAtoms |-> MaxLocalAtoms, positions |-> Vector(MaxLocalAtoms, k % (MaxPos + 1)),
     velocities |-> Vector(MaxLocalAtoms, RVec(k + 1)), box |-> k, ddpCount |-> k]
Checkpoints == {CheckpointOf(k) : k \in 1 .. MaxDomDec}

\* lines 593-602: resizeWithPadding(n) and std::copy of the global vector
resizedCopy(n, global) == [i \in 0 .. n - 1 |-> global[i]]

\* lines 287, 463: the velocities are backed up while the reset is pending
backsUpVelocities_never(pending) == FALSE
backsUpVelocities(pending) == pending

\* the thread count of the update module and the block size of the atom
\* ranges (1, or the SIMD width)
SimdWidth == 2
OmpConfigs == [nth : 1 .. MaxThreads, blockSize : {1, SimdWidth}]

\* getThreadAtomRange: the range [start, end) of thread th of nth
numBlocks(numAtoms, blockSize) == (numAtoms + blockSize - 1) \div blockSize
startAtom(o, th, numAtoms) ==
    ((numBlocks(numAtoms, o.blockSize) * th) \div o.nth) * o.blockSize
endAtom_overlapping(o, th, numAtoms) ==
    IF th = o.nth - 1
    THEN numAtoms
    ELSE IF ((numBlocks(numAtoms, o.blockSize) * (th + 1)) \div o.nth) * o.blockSize < numAtoms
         THEN ((numBlocks(numAtoms, o.blockSize) * (th + 1)) \div o.nth) * o.blockSize + 1
         ELSE numAtoms
endAtom(o, th, numAtoms) ==
    IF th = o.nth - 1
    THEN numAtoms
    ELSE ((numBlocks(numAtoms, o.blockSize) * (th + 1)) \div o.nth) * o.blockSize

\* lines 330-336: copyPosition(start, end) applied to previousX
copyPositionRange(prev, x, start, end) ==
    [i \in DOMAIN prev |-> IF start <= i /\ i < end THEN x[i] ELSE prev[i]]

\* lines 312-320: previousX after every thread copied its range
RECURSIVE copyPositionThreads(_, _, _, _, _)
copyPositionThreads(prev, x, o, numAtoms, th) ==
    IF th = o.nth
    THEN prev
    ELSE copyPositionThreads(
             copyPositionRange(prev, x, startAtom(o, th, numAtoms), endAtom(o, th, numAtoms)),
             x, o, numAtoms, th + 1)

VARIABLES
    elParams,                \* the constructor arguments of the Element
    simStep,                 \* the step being signalled and scheduled
    envPc,                   \* where the simulator loop is
    taskQueue,               \* the registered run functions not yet run
    writeOutStep_,           \* Element fields
    lastStep_,
    isRegularSimulationEnd_,
    localStateBackup_,       \* {} is the null pointer, else the one saved state
    vvResetVelocities_,      \* StatePropagatorData field
    assertion,               \* "none", or the GMX_ASSERT whose condition was false
    saves,                   \* history: the calls of saveState
    writes,                  \* history: the calls of write
    finalConfiguration,      \* history: the states written by the teardown
    ompCfg,                  \* thread count and range block size of the update module
    localNAtoms_,            \* StatePropagatorData fields
    x_,
    previousX_,
    box_,
    previousBox_,
    ddpCount_,
    v_,
    velocityBackup_,
    cth,                     \* per loop iteration th of copyPosition: where it is
    copiedBy,                \* history: per atom index, the iterations that copied it
    vvLog,                   \* history: elementSetup / setLocalState before the first step
    resets,                  \* history: the calls of resetVelocities
    registered,              \* history: the run functions scheduleTask registered
    cr,                      \* the commrec of the rank
    restored                 \* history: restoreCheckpointState was called

spdVars ==
    <<elParams, simStep, envPc, taskQueue, writeOutStep_, lastStep_,
      isRegularSimulationEnd_, localStateBackup_, vvResetVelocities_, assertion,
      saves, writes, finalConfiguration, ompCfg, localNAtoms_, x_, previousX_, box_,
      previousBox_, ddpCount_, v_, velocityBackup_, cth, copiedBy, vvLog, resets,
      registered, cr, restored>>

posVars == <<localNAtoms_, x_, previousX_, box_, previousBox_, ddpCount_>>
copyVars == <<ompCfg, cth, copiedBy>>
velVars == <<v_, velocityBackup_, vvLog, resets>>
runVars == <<cr, restored>>

\* lines 120-129, 143-166 of the constructor: the state copied from the
\* global state of a system without shells and frozen atoms, on one rank
StateConstructed ==
    /\ cr = SingleRank
    /\ restored = FALSE
    /\ localNAtoms_ = GlobalState.natoms
    /\ x_ = GlobalState.x
    /\ v_ \in {constructedVelocities(GlobalState.v, bContinuation, TRUE,
                                      NoSpecialAtoms(GlobalState.natoms),
                                      [g \in FreezeGroups |-> [m \in Dims |-> FALSE]]) :
                bContinuation \in BOOLEAN}
    /\ box_ = GlobalState.box
    /\ ddpCount_ = GlobalState.ddp_count
    /\ previousX_ = GlobalState.x
    /\ previousBox_ = GlobalState.box
    /\ cth = [th \in Threads |-> "idle"]
    /\ copiedBy = Vector(MaxLocalAtoms, {})
    /\ vvLog = <<>>
    /\ resets = <<>>
    /\ registered = <<>>

\* lines 104, 695-698: the fields after construction
ElementConstructed ==
    /\ simStep = 0
    /\ taskQueue = <<>>
    /\ writeOutStep_ = -1
    /\ lastStep_ = -1
    /\ isRegularSimulationEnd_ = FALSE
    /\ localStateBackup_ = {}
    /\ assertion = "none"
    /\ saves = <<>>
    /\ writes = <<>>
    /\ finalConfiguration = <<>>

ElementIdle ==
    /\ elParams = QuietElement
    /\ vvResetVelocities_ = FALSE
    /\ ElementConstructed
    /\ envPc = "signalTrajectory"
    /\ ompCfg = [nth |-> 1, blockSize |-> 1]
    /\ StateConstructed
    /\ velocityBackup_ = EmptyVector

\* ------------------------------------------------------------------ state
VARIABLES
    cfg,          \* the run configuration (fr, ir, cr), fixed over the run
    ewald_table,  \* fr->ewald_table: the cached tables of do_ewald
    stepNo,       \* calls of calculateLongRangeNonbondeds so far
    stepWork,     \* stepWork of the current call
    sys,          \* coordinates / charges of the current call
    pc,           \* where the calling thread is in calculateLongRangeNonbondeds
    fatal,        \* "none", or what ended the process: "worker", "pme"
    wpc,          \* per loop iteration t of the parallel region: where it is
    ewc_t,        \* fr->ewc_t: the per-thread records
    rt,           \* the loop index t of reduceEwaldThreadOuput
    Vlr_q,        \* locals of the call
    Vlr_lj,
    status,
    enerd,        \* the caller's energy terms and dvdl_lin
    virial,       \* forceWithVirial's virial accumulator
    force_,       \* number of in-place modifications of forceWithVirial->force_
    trace,        \* history: what the calling thread did in the current call
    invoked,      \* history: per index, how often the loop body started in this call
    callerClears, \* history: per record, clears by the calling thread in this call
    workerClears, \* history: per record, the iterations that cleared it in this call
    writers,      \* history: per record, the iterations that wrote it in this call
    lateWrite,    \* history: an iteration wrote a record outside the parallel region
    stale,        \* history: the records that were non-zero when the call started
    atStart,      \* history: the caller's accumulators when the call started
    forceAtStart, \* history: force_ when the call started
    ewc0          \* history: the records when the reduction started

vars ==
    <<cfg, ewald_table, stepNo, stepWork, sys, pc, fatal, wpc, ewc_t, rt, Vlr_q, Vlr_lj, status,
      enerd, virial, force_, trace, invoked, callerClears, workerClears, writers,
      lateWrite, stale, atStart, forceAtStart, ewc0, spdVars, nbVars>>

config == <<cfg>>
locals == <<Vlr_q, Vlr_lj, status>>
caller == <<enerd, virial>>
workerHist == <<invoked, workerClears, writers, lateWrite>>
stepHist == <<stale, atStart, forceAtStart>>

ZeroEnerd ==
    [term |-> [F_COUL_RECIP |-> 0, F_LJ_RECIP |-> 0],
     dvdl_lin |-> [c \in Couplings |-> 0]]

Accumulators == [enerd |-> enerd, virial |-> virial]

Running(t) == wpc[t] \in {"start", "cleared"}

Init ==
    /\ cfg \in Configs
    /\ ewald_table = EmptyTable
    /\ stepNo = 0
    /\ stepWork = [computeNonbondedForces |-> FALSE, stateChanged |-> FALSE]
    /\ sys = [x |-> 0]
    /\ pc = "Idle"
    /\ fatal = "none"
    /\ wpc = [t \in Threads |-> "idle"]
    /\ ewc_t = [t \in Threads |-> ZeroRecord]
    /\ rt = 0
    /\ Vlr_q = 0 /\ Vlr_lj = 0 /\ status = 0
    /\ enerd = ZeroEnerd
    /\ virial = ZeroMat
    /\ force_ = 0
    /\ trace = <<>>
    /\ invoked = [t \in Threads |-> 0]
    /\ callerClears = [t \in Threads |-> 0]
    /\ workerClears = [t \in Threads |-> <<>>]
    /\ writers = [t \in Threads |-> {}]
    /\ lateWrite = FALSE
    /\ stale = {}
    /\ atStart = [enerd |-> ZeroEnerd, virial |-> ZeroMat]
    /\ forceAtStart = 0
    /\ ewc0 = [t \in Threads |-> ZeroRecord]
    /\ ElementIdle
    /\ NbIdle

\* ------------------------------------------- calculateLongRangeNonbondeds
\* lines 127-128 false: the call does nothing (until the debug print)
SkipStep ==
    /\ pc = "Idle" /\ stepNo < MaxSteps
    /\ \E w \in StepWorks, s \in SysInputs :
          /\ ~longRangeBlockRuns(cfg, w)
          /\ stepWork' = w /\ sys' = s
    /\ stepNo' = stepNo + 1
    /\ wpc' = [t \in Threads |-> "idle"]
    /\ trace' = <<>>
    /\ invoked' = [t \in Threads |-> 0]
    /\ callerClears' = [t \in Threads |-> 0]
    /\ workerClears' = [t \in Threads |-> <<>>]
    /\ writers' = [t \in Threads |-> {}]
    /\ stale' = {t \in Threads : ewc_t[t] # ZeroRecord}
    /\ atStart' = Accumulators
    /\ forceAtStart' = force_
    /\ UNCHANGED <<nbVars, spdVars, cfg, ewald_table, pc, fatal, ewc_t, rt, locals, caller, force_, lateWrite, ewc0>>

\* lines 127-137: the block is entered, the locals are set, record 0 is cleared
BeginStep ==
    /\ pc = "Idle" /\ stepNo < MaxSteps
    /\ \E w \in StepWorks, s \in SysInputs :
          /\ longRangeBlockRuns(cfg, w)
          /\ stepWork' = w /\ sys' = s
    /\ status' = 0 /\ Vlr_q' = 0 /\ Vlr_lj' = 0
    /\ ewc_t' = [ewc_t EXCEPT ![0] = clearEwaldThreadOutput(@)]
    /\ pc' = "Corr"
    /\ wpc' = [t \in Threads |-> "idle"]
    /\ trace' = <<"clear0">>
    /\ invoked' = [t \in Threads |-> 0]
    /\ callerClears' = [t \in Threads |-> IF t = 0 THEN 1 ELSE 0]
    /\ workerClears' = [t \in Threads |-> <<>>]
    /\ writers' = [t \in Threads |-> {}]
    /\ stale' = {t \in Threads : ewc_t[t] # ZeroRecord}
    /\ atStart' = Accumulators
    /\ forceAtStart' = force_
    /\ UNCHANGED <<nbVars, spdVars, cfg, ewald_table, stepNo, fatal, rt, caller, force_, lateWrite, ewc0>>

\* mutant: the net-charge correction is placed after the PME block
blockOrder_chargeLate == <<"Corr", "Pme", "Tpi", "Charge", "Ewald", "Merge", "Idle">>

\* mutant: the net-charge correction is repeated after the PME block
blockOrder_chargeTwice ==
    <<"Corr", "Charge", "Pme", "Charge", "Tpi", "Ewald", "Merge", "Idle">>

\* mutant: the merge is placed before the plain-Ewald solve
blockOrder_mergeEarly == <<"Corr", "Charge", "Pme", "Tpi", "Merge", "Ewald", "Idle">>

\* lines 139-326: the order of the blocks of the call, by the statement each starts at
\* (139 corrections, 192 net charge, 205 PME, 263 test particle, 276 Ewald, 296 merge)
blockOrder == <<"Corr", "Charge", "Pme", "Tpi", "Ewald", "Merge", "Idle">>

\* the block the calling thread reaches when it leaves block b
after(b) == blockOrder[(CHOOSE i \in 1 .. Len(blockOrder) : blockOrder[i] = b) + 1]

\* mutant: the surface term is not asked for
dispatchRuns_anySurface(c) == EEL_PME_EWALD(c.eeltype) \/ EVDW_PME(c)

\* lines 139, 142: whether the per-thread correction runs in this call
dispatchRuns(c) ==
    (EEL_PME_EWALD(c.eeltype) \/ EVDW_PME(c)) /\ haveEwaldSurfaceContribution(c)

\* mutant: the loop runs one index too far
dispatchRange_offByOne(n) == 0 .. n

\* line 148: the indices of the parallel loop
dispatchRange(n) == 0 .. (n - 1)

\* lines 139-148: the parallel region starts, one iteration per index
StartDispatch ==
    /\ pc = "Corr" /\ dispatchRuns(cfg)
    /\ wpc' = [t \in Threads |->
                 IF t \in dispatchRange(cfg.nthread_ewc) THEN "start" ELSE "idle"]
    /\ pc' = "Dispatch"
    /\ trace' = Append(trace, "dispatch")
    /\ UNCHANGED <<nbVars, spdVars, cfg, ewald_table, stepNo, stepWork, sys, fatal, ewc_t, rt, locals, caller, force_,
                   invoked, callerClears, workerClears, writers, lateWrite, stepHist, ewc0>>

\* lines 139, 142 false: no per-thread correction in this call
SkipDispatch ==
    /\ pc = "Corr" /\ ~dispatchRuns(cfg)
    /\ pc' = IF EEL_PME_EWALD(cfg.eeltype) \/ EVDW_PME(cfg) THEN after("Corr") ELSE "Ewald"
    /\ UNCHANGED <<nbVars, spdVars, cfg, ewald_table, stepNo, stepWork, sys, fatal, wpc, ewc_t, rt, locals, caller,
                   force_, trace, workerHist, callerClears, stepHist, ewc0>>

\* ------------------------------------------------ the parallel loop body
\* mutant: every iteration takes record 0
workerRecord_shared(t) == 0

\* mutant: iteration t takes the record of its neighbour
workerRecord_next(t) == (t + 1) % MaxThreads

\* line 152: the record iteration t works on
workerRecord(t) == t

\* lines 179-181: the slots iteration t hands to ewald_LRcorrection to write
workerSlots(t) == {<<workerRecord(t), "Vcorr_q">>, <<workerRecord(t), "dvdl_Coul">>}

\* mutant: no iteration clears its record
clearsOwn_never(t) == FALSE

\* line 153: iteration t clears its record itself
clearsOwn(t) == t > 0

\* lines 150-156: iteration t starts and clears its record (not iteration 0)
WorkerClear(t) ==
    /\ wpc[t] = "start" /\ pc # "Fatal"
    /\ invoked' = [invoked EXCEPT ![t] = @ + 1]
    /\ IF clearsOwn(t)
       THEN /\ ewc_t' = [ewc_t EXCEPT ![workerRecord(t)] = clearEwaldThreadOutput(@)]
            /\ workerClears' = [workerClears EXCEPT ![workerRecord(t)] = Append(@, t)]
            /\ writers' = [writers EXCEPT ![workerRecord(t)] = @ \cup {t}]
            /\ lateWrite' = (lateWrite \/ pc # "Dispatch")
       ELSE UNCHANGED <<ewc_t, workerClears, writers, lateWrite>>
    /\ wpc' = [wpc EXCEPT ![t] = "cleared"]
    /\ UNCHANGED <<nbVars, spdVars, cfg, ewald_table, stepNo, stepWork, sys, pc, fatal, rt, locals, caller, force_,
                   trace, callerClears, stepHist, ewc0>>

\* lines 163-181: ewald_LRcorrection of iteration t returns
WorkerCompute(t) ==
    /\ wpc[t] = "cleared" /\ pc # "Fatal"
    /\ ewc_t' = [ewc_t EXCEPT ![workerRecord(t)] =
                     ewald_LRcorrection(@, sys, t, cfg.nthread_ewc)]
    /\ force_' = force_ + 1
    /\ writers' = [writers EXCEPT ![workerRecord(t)] = @ \cup {t}]
    /\ lateWrite' = (lateWrite \/ pc # "Dispatch")
    /\ wpc' = [wpc EXCEPT ![t] = "done"]
    /\ UNCHANGED <<nbVars, spdVars, cfg, ewald_table, stepNo, stepWork, sys, pc, fatal, rt, locals, caller, trace,
                   invoked, callerClears, workerClears, stepHist, ewc0>>

\* mutant: the exception ends the iteration only
afterThrow_swallowed(p) == p

\* line 183, GMX_CATCH_ALL_AND_EXIT_WITH_FATAL_ERROR: the process ends
afterThrow(p) == "Fatal"

\* lines 150-183: ewald_LRcorrection of iteration t throws
WorkerThrow(t) ==
    /\ wpc[t] = "cleared" /\ pc # "Fatal"
    /\ wpc' = [wpc EXCEPT ![t] = "threw"]
    /\ pc' = afterThrow(pc)
    /\ fatal' = IF afterThrow(pc) = "Fatal" THEN "worker" ELSE fatal
    /\ UNCHANGED <<nbVars, spdVars, cfg, ewald_table, stepNo, stepWork, sys, ewc_t, rt, locals, caller, force_, trace,
                   workerHist, callerClears, stepHist, ewc0>>

\* mutant: the region ends as soon as one iteration has ended
joinReady_anyDone(w) == \E t \in Threads : w[t] = "done"

\* mutant: the calling thread waits for its own iteration only
joinReady_nowait(w) == ~(w[0] \in {"start", "cleared"})

\* lines 147-184: the implicit barrier that ends the parallel region
joinReady(w) == \A t \in Threads : ~(w[t] \in {"start", "cleared"})

\* mutant: two records are not worth reducing
needsReduce_fromThree(n) == n > 2

\* line 185
needsReduce(n) == n > 1

\* lines 184-187: the region ends; reduceEwaldThreadOuput is called when nthreads > 1
Join ==
    /\ pc = "Dispatch" /\ joinReady(wpc)
    /\ pc' = IF needsReduce(cfg.nthread_ewc) THEN "Reduce" ELSE after("Corr")
    /\ rt' = reduceFirst
    /\ ewc0' = ewc_t
    /\ trace' = Append(trace, "join")
    /\ UNCHANGED <<nbVars, spdVars, cfg, ewald_table, stepNo, stepWork, sys, fatal, wpc, ewc_t, locals, caller, force_,
                   workerHist, callerClears, stepHist>>

\* mutant: the loop adds the records from the last one down
reduceSource_descending(t, n) == n - t

\* lines 92-99: the record iteration t of the loop adds, ewc_t[t]
reduceSource(t, n) == t

\* mutant: the sums go to the record after record 0
reduceDest_one == 0 + 1

\* line 88: ewald_corr_thread_t& dest = ewc_t[0]
reduceDest == 0

\* lines 90-100: one iteration of the loop of reduceEwaldThreadOuput
ReduceStep ==
    /\ pc = "Reduce" /\ rt < cfg.nthread_ewc
    /\ ewc_t' = [ewc_t EXCEPT ![reduceDest] =
                     reduceBody(@, ewc_t[reduceSource(rt, cfg.nthread_ewc)])]
    /\ rt' = rt + 1
    /\ UNCHANGED <<nbVars, spdVars, cfg, ewald_table, stepNo, stepWork, sys, pc, fatal, wpc, locals, caller, force_,
                   trace, workerHist, callerClears, stepHist, ewc0>>

\* lines 90, 101: the loop ends and reduceEwaldThreadOuput returns
ReduceExit ==
    /\ pc = "Reduce" /\ ~(rt < cfg.nthread_ewc)
    /\ pc' = after("Corr")
    /\ trace' = Append(trace, "reduced")
    /\ UNCHANGED <<nbVars, spdVars, cfg, ewald_table, stepNo, stepWork, sys, fatal, wpc, ewc_t, rt, locals, caller,
                   force_, workerHist, callerClears, stepHist, ewc0>>

\* ------------------------------------- net-charge correction and solvers
\* line 192
chargeCorrRuns(c) == EEL_PME_EWALD(c.eeltype) /\ c.n_tpi = 0

\* lines 196-202: the slots of ewaldOutput (record 0) the net-charge correction
\* writes: Vcorr_q by +=, dvdl[Coul] and vir_q through the pointers it is handed
chargeSlots == {<<0, "Vcorr_q">>, <<0, "dvdl_Coul">>, <<0, "vir_q">>}

\* lines 192-203: the net-charge correction, added to record 0 by the caller
ChargeCorrection ==
    /\ pc = "Charge" /\ chargeCorrRuns(cfg)
    /\ ewc_t' = [ewc_t EXCEPT ![0] = ewald_charge_correction(@, cfg, sys)]
    /\ pc' = after("Charge")
    /\ trace' = Append(trace, "charge")
    /\ UNCHANGED <<nbVars, spdVars, cfg, ewald_table, stepNo, stepWork, sys, fatal, wpc, rt, locals, caller, force_,
                   workerHist, callerClears, stepHist, ewc0>>

\* line 192 false
SkipChargeCorrection ==
    /\ pc = "Charge" /\ ~chargeCorrRuns(cfg)
    /\ pc' = after("Charge")
    /\ UNCHANGED <<nbVars, spdVars, cfg, ewald_table, stepNo, stepWork, sys, fatal, wpc, ewc_t, rt, locals, caller,
                   force_, trace, workerHist, callerClears, stepHist, ewc0>>

\* mutant: the mesh solve runs in every step
pmeSolveRuns_everyStep(c, w) == computePmeOnCpu(c)

\* lines 205, 209
pmeSolveRuns(c, w) == computePmeOnCpu(c) /\ (c.n_tpi = 0 \/ w.stateChanged)

\* mutant: the status of gmx_pme_do is not looked at
afterPme_ignoresStatus(st) == after("Pme")

\* lines 250-253: gmx_fatal on a non-zero status
afterPme(st) == IF st # 0 THEN "Fatal" ELSE after("Pme")

\* mutant: the load-balance region is left open
beforePme_noClose(tr) == tr

\* line 215: ddBalanceRegionHandler.closeAfterForceComputationCpu()
beforePme(tr) == Append(tr, "ddclose")

PmeStatuses == {0, 1}

\* lines 205-262: the load-balance region is closed, gmx_pme_do runs; a call that
\* fails may or may not have written the forces it was handed
PmeSolve ==
    /\ pc = "Pme" /\ pmeSolveRuns(cfg, stepWork)
    /\ \E st \in PmeStatuses, wrote \in BOOLEAN :
          /\ st = 0 => wrote
          /\ status' = st
          /\ pc' = afterPme(st)
          /\ fatal' = IF afterPme(st) = "Fatal" THEN "pme" ELSE fatal
          /\ force_' = IF wrote THEN force_ + 1 ELSE force_
    /\ Vlr_q' = PmeEnergyQ(cfg, sys)
    /\ Vlr_lj' = PmeEnergyLJ(cfg, sys)
    /\ ewc_t' = [ewc_t EXCEPT ![0] = gmx_pme_do(@, cfg, sys)]
    /\ trace' = Append(beforePme(trace), "pme")
    /\ UNCHANGED <<nbVars, spdVars, cfg, ewald_table, stepNo, stepWork, sys, wpc, rt, caller, workerHist, callerClears,
                   stepHist, ewc0>>

\* lines 205, 209 false
SkipPme ==
    /\ pc = "Pme" /\ ~pmeSolveRuns(cfg, stepWork)
    /\ pc' = after("Pme")
    /\ UNCHANGED <<nbVars, spdVars, cfg, ewald_table, stepNo, stepWork, sys, fatal, wpc, ewc_t, rt, locals, caller,
                   force_, trace, workerHist, callerClears, stepHist, ewc0>>

\* lines 205, 263
tpiEnergyRuns(c) == computePmeOnCpu(c) /\ c.n_tpi > 0

\* lines 263-272: the grid energy of the test molecule replaces Vlr_q
TpiEnergy ==
    /\ pc = "Tpi" /\ tpiEnergyRuns(cfg)
    /\ Vlr_q' = gmx_pme_calc_energy(sys)
    /\ pc' = after("Tpi")
    /\ trace' = Append(trace, "tpi")
    /\ UNCHANGED <<nbVars, spdVars, cfg, ewald_table, stepNo, stepWork, sys, fatal, wpc, ewc_t, rt, Vlr_lj, status,
                   caller, force_, workerHist, callerClears, stepHist, ewc0>>

SkipTpi ==
    /\ pc = "Tpi" /\ ~tpiEnergyRuns(cfg)
    /\ pc' = after("Tpi")
    /\ UNCHANGED <<nbVars, spdVars, cfg, ewald_table, stepNo, stepWork, sys, fatal, wpc, ewc_t, rt, locals, caller,
                   force_, trace, workerHist, callerClears, stepHist, ewc0>>

\* line 276
ewaldSolveRuns(c) == c.eeltype = "Ewald"

\* lines 276-291: do_ewald
EwaldSolve ==
    /\ pc = "Ewald" /\ ewaldSolveRuns(cfg)
    /\ Vlr_q' = EwaldEnergy(sys)
    /\ ewc_t' = [ewc_t EXCEPT ![0] = do_ewald(@, sys)]
    /\ ewald_table' = ewaldTableAfter(ewald_table, sys)
    /\ force_' = force_ + 1
    /\ pc' = after("Ewald")
    /\ trace' = Append(trace, "ewald")
    /\ UNCHANGED <<nbVars, spdVars, cfg, stepNo, stepWork, sys, fatal, wpc, rt, Vlr_lj, status, caller,
                   workerHist, callerClears, stepHist, ewc0>>

SkipEwald ==
    /\ pc = "Ewald" /\ ~ewaldSolveRuns(cfg)
    /\ pc' = after("Ewald")
    /\ UNCHANGED <<nbVars, spdVars, cfg, ewald_table, stepNo, stepWork, sys, fatal, wpc, ewc_t, rt, locals, caller,
                   force_, trace, workerHist, callerClears, stepHist, ewc0>>

\* ------------------------------------------------------------- the merge
\* mutant: the energy terms are added to instead of overwritten
mergeEnerd_accumulates(e, out, vq, vlj) ==
    [term |-> [F_COUL_RECIP |-> e.term.F_COUL_RECIP + vq + out.Vcorr_q,
               F_LJ_RECIP |-> e.term.F_LJ_RECIP + vlj + out.Vcorr_lj],
     dvdl_lin |-> [c \in Couplings |-> e.dvdl_lin[c] + out.dvdl[c]]]

\* lines 298-303: the caller's energy data after the merge of ewaldOutput
mergeEnerd(e, out, vq, vlj) ==
    [term |-> [F_COUL_RECIP |-> vq + out.Vcorr_q, F_LJ_RECIP |-> vlj + out.Vcorr_lj],
     dvdl_lin |-> [c \in Couplings |-> e.dvdl_lin[c] + out.dvdl[c]]]

\* lines 296-297: forceWithVirial->addVirialContribution, twice
mergeVirial(v, out) == m_add(m_add(v, out.vir_q), out.vir_lj)

\* lines 296-303 and the return
Merge ==
    /\ pc = "Merge"
    /\ virial' = mergeVirial(virial, ewc_t[0])
    /\ enerd' = mergeEnerd(enerd, ewc_t[0], Vlr_q, Vlr_lj)
    /\ pc' = after("Merge")
    /\ stepNo' = stepNo + 1
    /\ trace' = Append(trace, "merge")
    /\ UNCHANGED <<nbVars, spdVars, cfg, ewald_table, stepWork, sys, fatal, wpc, ewc_t, rt, locals, force_, workerHist,
                   callerClears, stepHist, ewc0>>

\* --------------------------------------------------------- specifications
Worker == \E t \in Threads : WorkerClear(t) \/ WorkerCompute(t) \/ WorkerThrow(t)

Next ==
    \/ SkipStep \/ BeginStep \/ StartDispatch \/ SkipDispatch
    \/ Worker \/ Join \/ ReduceStep \/ ReduceExit
    \/ ChargeCorrection \/ SkipChargeCorrection
    \/ PmeSolve \/ SkipPme \/ TpiEnergy \/ SkipTpi \/ EwaldSolve \/ SkipEwald
    \/ Merge

Spec == Init /\ [][Next]_vars

\* the reduction alone, on records with arbitrary contents
InitReduce ==
    /\ cfg \in {c \in Configs : c.eeltype = "PME" /\ c.surface /\ ~c.vdwPme
                                /\ c.pmeCpuRank /\ c.n_tpi = 0 /\ c.qsum = 0}
    /\ ewald_table = EmptyTable
    /\ stepNo = 0
    /\ stepWork = [computeNonbondedForces |-> TRUE, stateChanged |-> TRUE]
    /\ sys = [x |-> 0]
    /\ pc = "Reduce"
    /\ fatal = "none"
    /\ wpc = [t \in Threads |-> "idle"]
    /\ \E k \in [Threads -> 0 .. MaxSeed] :
          /\ ewc_t = [t \in Threads |-> SeedRecord(k[t])]
          /\ ewc0 = [t \in Threads |-> SeedRecord(k[t])]
    /\ rt = reduceFirst
    /\ Vlr_q = 0 /\ Vlr_lj = 0 /\ status = 0
    /\ enerd = ZeroEnerd
    /\ virial = ZeroMat
    /\ force_ = 0
    /\ trace = <<>>
    /\ invoked = [t \in Threads |-> 0]
    /\ callerClears = [t \in Threads |-> 0]
    /\ workerClears = [t \in Threads |-> <<>>]
    /\ writers = [t \in Threads |-> {}]
    /\ lateWrite = FALSE
    /\ stale = {}
    /\ atStart = [enerd |-> ZeroEnerd, virial |-> ZeroMat]
    /\ forceAtStart = 0
    /\ ElementIdle
    /\ NbIdle

NextReduce == ReduceStep \/ ReduceExit

SpecReduce == InitReduce /\ [][NextReduce]_vars

\* the clear alone, on records with arbitrary contents
InitClear ==
    /\ cfg \in {c \in Configs : c.eeltype = "PME" /\ c.surface /\ ~c.vdwPme
                                /\ c.pmeCpuRank /\ c.n_tpi = 0 /\ c.qsum = 0
                                /\ c.nthread_ewc = MaxThreads}
    /\ ewald_table = EmptyTable
    /\ stepNo = 0
    /\ stepWork = [computeNonbondedForces |-> TRUE, stateChanged |-> TRUE]
    /\ sys = [x |-> 0]
    /\ pc = "Idle"
    /\ fatal = "none"
    /\ wpc = [t \in Threads |-> "idle"]
    /\ \E k \in [Threads -> 0 .. MaxSeed] :
          /\ ewc_t = [t \in Threads |-> SeedRecord(k[t])]
          /\ ewc0 = [t \in Threads |-> SeedRecord(k[t])]
    /\ rt = 0
    /\ Vlr_q = 0 /\ Vlr_lj = 0 /\ status = 0
    /\ enerd = ZeroEnerd
    /\ virial = ZeroMat
    /\ force_ = 0
    /\ trace = <<>>
    /\ invoked = [t \in Threads |-> 0]
    /\ callerClears = [t \in Threads |-> 0]
    /\ workerClears = [t \in Threads |-> <<>>]
    /\ writers = [t \in Threads |-> {}]
    /\ lateWrite = FALSE
    /\ stale = {}
    /\ atStart = [enerd |-> ZeroEnerd, virial |-> ZeroMat]
    /\ forceAtStart = 0
    /\ ElementIdle
    /\ NbIdle

\* lines 76-84: clearEwaldThreadOutput(&fr->ewc_t[t])
ClearRecord(t) ==
    /\ callerClears[t] < MaxClears
    /\ ewc_t' = [ewc_t EXCEPT ![t] = clearEwaldThreadOutput(@)]
    /\ callerClears' = [callerClears EXCEPT ![t] = @ + 1]
    /\ UNCHANGED <<nbVars, spdVars, cfg, ewald_table, stepNo, stepWork, sys, pc, fatal, wpc, rt, locals,
                   caller, force_, trace, workerHist, stepHist, ewc0>>

NextClear == \E t \in Threads : ClearRecord(t)

SpecClear == InitClear /\ [][NextClear]_vars

\* every thread that can take a step eventually takes one
SpecFair == Init /\ [][Next]_vars /\ WF_vars(Next)

\* ------------------------------------- StatePropagatorData::Element steps
forceVars ==
    <<cfg, ewald_table, stepNo, stepWork, sys, pc, fatal, wpc, ewc_t, rt, Vlr_q, Vlr_lj, status,
      enerd, virial, force_, trace, invoked, callerClears, workerClears, writers,
      lateWrite, stale, atStart, forceAtStart, ewc0>>

ForceIdle ==
    /\ cfg = [eeltype |-> "PME", surface |-> FALSE, vdwPme |-> FALSE, pmeCpuRank |-> TRUE,
              n_tpi |-> 0, qsum |-> 0, nthread_ewc |-> 1]
    /\ ewald_table = EmptyTable
    /\ stepNo = 0
    /\ stepWork = [computeNonbondedForces |-> FALSE, stateChanged |-> FALSE]
    /\ sys = [x |-> 0]
    /\ pc = "Idle"
    /\ fatal = "none"
    /\ wpc = [t \in Threads |-> "idle"]
    /\ ewc_t = [t \in Threads |-> ZeroRecord]
    /\ rt = 0
    /\ Vlr_q = 0 /\ Vlr_lj = 0 /\ status = 0
    /\ enerd = ZeroEnerd
    /\ virial = ZeroMat
    /\ force_ = 0
    /\ trace = <<>>
    /\ invoked = [t \in Threads |-> 0]
    /\ callerClears = [t \in Threads |-> 0]
    /\ workerClears = [t \in Threads |-> <<>>]
    /\ writers = [t \in Threads |-> {}]
    /\ lateWrite = FALSE
    /\ stale = {}
    /\ atStart = [enerd |-> ZeroEnerd, virial |-> ZeroMat]
    /\ forceAtStart = 0
    /\ ewc0 = [t \in Threads |-> ZeroRecord]

\* lines 168-171: vvResetVelocities_ is set for a velocity Verlet run; the run
\* starts after setup() (lines 180-186, 461-470) without domain decomposition
InitElement ==
    /\ ForceIdle
    /\ NbIdle
    /\ elParams \in ElementParams
    /\ vvResetVelocities_ \in BOOLEAN
    /\ ElementConstructed
    /\ envPc = "signalTrajectory"
    /\ ompCfg = [nth |-> 1, blockSize |-> 1]
    /\ StateConstructed
    /\ velocityBackup_ = IF backsUpVelocities(vvResetVelocities_) THEN v_ ELSE EmptyVector

\* lines 370-377: the trajectory signaller calls the registered callback for
\* a state writing step
TrajectorySignal ==
    /\ envPc = "signalTrajectory"
    /\ writeOutStep_' = IF isStateWritingStep(elParams, simStep)
                        THEN simStep ELSE writeOutStep_
    /\ envPc' = "signalLastStep"
    /\ UNCHANGED <<forceVars, nbVars, runVars, posVars, copyVars, registered, velVars, elParams, simStep, taskQueue, lastStep_,
                   isRegularSimulationEnd_, localStateBackup_, vvResetVelocities_,
                   assertion, saves, writes, finalConfiguration>>

\* lines 670-676: the last step signaller calls the registered callback for
\* the last step, which is the last planned step or an earlier stop
LastStepSignal ==
    /\ envPc = "signalLastStep"
    /\ \E stop \in BOOLEAN :
          IF simStep = elParams.lastPlannedStep_ \/ simStep = MaxSimStep \/ stop
          THEN /\ lastStep_' = simStep
               /\ isRegularSimulationEnd_' = (simStep = elParams.lastPlannedStep_)
          ELSE UNCHANGED <<lastStep_, isRegularSimulationEnd_>>
    /\ envPc' = "schedule"
    /\ UNCHANGED <<forceVars, nbVars, runVars, posVars, copyVars, registered, velVars, elParams, simStep, taskQueue, writeOutStep_,
                   localStateBackup_, vvResetVelocities_, assertion, saves, writes,
                   finalConfiguration>>

\* lines 338-354: scheduleTask(step), followed by the trajectory writer's own
\* registration for the step; the loop goes on to the next step unless this
\* was the last
ScheduleTask ==
    /\ envPc = "schedule"
    /\ \E w \in writerTasks(elParams, simStep) :
          taskQueue' = taskQueue
                       \o elementTasks(simStep, vvResetVelocities_, writeOutStep_,
                                       lastStep_, elParams.writeFinalConfiguration_)
                       \o w
    /\ registered' = registered
                      \o elementTasks(simStep, vvResetVelocities_, writeOutStep_,
                                      lastStep_, elParams.writeFinalConfiguration_)
    /\ vvResetVelocities_' = pendingAfterSchedule(vvResetVelocities_)
    /\ IF simStep = lastStep_
       THEN envPc' = "run" /\ simStep' = simStep
       ELSE envPc' = "signalTrajectory" /\ simStep' = simStep + 1
    /\ UNCHANGED <<forceVars, nbVars, runVars, posVars, copyVars, velVars, elParams, writeOutStep_, lastStep_,
                   isRegularSimulationEnd_, localStateBackup_, assertion, saves,
                   writes, finalConfiguration>>

\* the queue is run between the signals of a step and its scheduling, and
\* after the last step was scheduled
RunsQueue == envPc \in {"schedule", "run"} /\ taskQueue # <<>>

\* lines 472-475: the registered resetVelocities
RunResetVelocities ==
    /\ RunsQueue /\ Head(taskQueue).fn = "resetVelocities"
    /\ taskQueue' = Tail(taskQueue)
    /\ v_' = velocityBackup_
    /\ resets' = Append(resets, [backup |-> velocityBackup_, before |-> v_, after |-> v_'])
    /\ UNCHANGED <<forceVars, nbVars, runVars, posVars, copyVars, registered, velocityBackup_, vvLog, elParams, simStep, envPc, writeOutStep_, lastStep_,
                   isRegularSimulationEnd_, localStateBackup_, vvResetVelocities_,
                   assertion, saves, writes, finalConfiguration>>

\* lines 310-328: the registered copyPosition
RunCopyPosition ==
    /\ RunsQueue /\ Head(taskQueue).fn = "copyPosition"
    /\ taskQueue' = Tail(taskQueue)
    /\ previousX_' = copyPositionThreads(previousX_, x_, ompCfg, localNAtoms_, 0)
    /\ previousBox_' = box_
    /\ UNCHANGED <<forceVars, nbVars, runVars, localNAtoms_, x_, box_, ddpCount_, copyVars, registered, velVars, elParams, simStep, envPc, writeOutStep_, lastStep_,
                   isRegularSimulationEnd_, localStateBackup_, vvResetVelocities_,
                   assertion, saves, writes, finalConfiguration>>

\* lines 356-368: saveState; when a backup is still held the assertion of
\* line 358 ends a build with assertions, and a build without them replaces
\* the backup
RunSaveState ==
    /\ RunsQueue /\ Head(taskQueue).fn = "saveState"
    /\ LET step == Head(taskQueue).step
           saved == {localState(step, elParams.freeEnergyPerturbationData_)}
       IN  /\ saves' = Append(saves, [step |-> step, held |-> localStateBackup_])
           /\ IF localStateBackup_ = {}
              THEN /\ localStateBackup_' = saved
                   /\ taskQueue' = Tail(taskQueue)
                   /\ UNCHANGED <<assertion, envPc>>
              ELSE /\ assertion' = "saveState"
                   /\ \/ /\ envPc' = "aborted"
                         /\ UNCHANGED <<localStateBackup_, taskQueue>>
                      \/ /\ localStateBackup_' = saved
                         /\ taskQueue' = Tail(taskQueue)
                         /\ UNCHANGED envPc
    /\ UNCHANGED <<forceVars, nbVars, runVars, posVars, copyVars, registered, velVars, elParams, simStep, writeOutStep_, lastStep_,
                   isRegularSimulationEnd_, vvResetVelocities_, writes,
                   finalConfiguration>>

\* lines 379-392 and 394-459: the trajectory writer calls the registered
\* callback, which calls write when writeTrajectory is set; writing without
\* a backup (line 436) ends the run
TrajectoryWriterCallback ==
    /\ RunsQueue /\ Head(taskQueue).fn = "write"
    /\ LET currentStep == Head(taskQueue).step
           flags == mdof_flags(elParams, currentStep)
       IN  IF ~Head(taskQueue).writeTrajectory
           THEN /\ taskQueue' = Tail(taskQueue)
                /\ UNCHANGED <<localStateBackup_, assertion, envPc, writes>>
           ELSE IF flags = {}
           THEN /\ taskQueue' = Tail(taskQueue)
                /\ writes' = Append(writes, [step |-> currentStep, flags |-> flags,
                                             read |-> {}, held |-> localStateBackup_,
                                             left |-> localStateBackup_])
                /\ UNCHANGED <<localStateBackup_, assertion, envPc>>
           ELSE IF localStateBackup_ = {}
           THEN /\ assertion' = "write"
                /\ envPc' = "aborted"
                /\ UNCHANGED <<localStateBackup_, taskQueue, writes>>
           ELSE /\ localStateBackup_' =
                       IF releasesBackup(currentStep, lastStep_, isRegularSimulationEnd_)
                       THEN {} ELSE localStateBackup_
                /\ writes' = Append(writes, [step |-> currentStep, flags |-> flags,
                                             read |-> localStateBackup_,
                                             held |-> localStateBackup_,
                                             left |-> localStateBackup_'])
                /\ taskQueue' = Tail(taskQueue)
                /\ UNCHANGED <<assertion, envPc>>
    /\ UNCHANGED <<forceVars, nbVars, runVars, posVars, copyVars, registered, velVars, elParams, simStep, writeOutStep_, lastStep_,
                   isRegularSimulationEnd_, vvResetVelocities_, saves,
                   finalConfiguration>>

\* line 648: only the master rank writes the final configuration
writesFinalConfiguration(commrec) == commrec.master

\* lines 610-668: trajectoryWriterTeardown, after the last run function; the
\* ranks of a domain decomposition collect the vectors of the backup, the
\* master writes them
TrajectoryWriterTeardown ==
    /\ envPc = "run" /\ taskQueue = <<>>
    /\ IF ~elParams.writeFinalConfiguration_ \/ ~isRegularSimulationEnd_
       THEN /\ envPc' = "done"
            /\ UNCHANGED <<assertion, finalConfiguration>>
       ELSE IF localStateBackup_ = {}
       THEN /\ assertion' = "teardown"
            /\ envPc' = "aborted"
            /\ UNCHANGED finalConfiguration
       ELSE /\ finalConfiguration' =
                  IF writesFinalConfiguration(cr)
                  THEN Append(finalConfiguration, localStateBackup_)
                  ELSE finalConfiguration
            /\ envPc' = "done"
            /\ UNCHANGED assertion
    /\ UNCHANGED <<forceVars, nbVars, runVars, posVars, copyVars, registered, velVars, elParams, simStep, taskQueue, writeOutStep_, lastStep_,
                   isRegularSimulationEnd_, localStateBackup_, vvResetVelocities_,
                   saves, writes>>

NextElement ==
    \/ TrajectorySignal
    \/ LastStepSignal
    \/ ScheduleTask
    \/ RunResetVelocities
    \/ RunCopyPosition
    \/ RunSaveState
    \/ TrajectoryWriterCallback
    \/ TrajectoryWriterTeardown

SpecElement == InitElement /\ [][NextElement]_vars

\* --------------------------------- StatePropagatorData from construction
\* the elements of the runs that follow the velocities through setup and
\* the first step, which is their last
SetupElements ==
    {[QuietElement EXCEPT !.nstxout_ = n, !.writeFinalConfiguration_ = f] :
     n \in OnOffIntervals, f \in BOOLEAN}

\* the first step was not scheduled yet
NotYetScheduled ==
    simStep = 0 /\ envPc \in {"constructed", "signalTrajectory", "signalLastStep", "schedule"}

\* lines 109-171: the constructor took the global state, or with domain
\* decomposition called setLocalState, zeroed the velocities of shells and
\* frozen dimensions of a run that is no continuation, and then set
\* vvResetVelocities_
InitSetup ==
    /\ ForceIdle
    /\ NbIdle
    /\ elParams \in SetupElements
    /\ ElementConstructed
    /\ envPc = "constructed"
    /\ ompCfg = [nth |-> MaxThreads, blockSize |-> 1]
    /\ cr \in Commrecs
    /\ restored = FALSE
    /\ \E st \in IF cr.dd THEN LocalStates ELSE {GlobalState} :
       \E bContinuation, isVV, stateHasVelocities \in BOOLEAN :
       \E mdatoms \in MdAtoms(st.natoms), nFreeze \in FreezeOptions :
          /\ vvResetVelocities_ = constructedPending(bContinuation, isVV)
          /\ localNAtoms_ = st.natoms
          /\ x_ = st.x
          /\ v_ = constructedVelocities(st.v, bContinuation, stateHasVelocities,
                                        mdatoms, nFreeze)
          /\ box_ = st.box
          /\ ddpCount_ = st.ddp_count
          /\ previousX_ = st.x
          /\ previousBox_ = st.box
    /\ velocityBackup_ = EmptyVector
    /\ cth = [th \in Threads |-> "idle"]
    /\ copiedBy = Vector(MaxLocalAtoms, {})
    /\ vvLog = <<>>
    /\ resets = <<>>
    /\ registered = <<>>

\* lines 180-186, 461-470: setup() calls elementSetup
ElementSetup ==
    /\ envPc = "constructed"
    /\ envPc' = "signalTrajectory"
    /\ velocityBackup_' = IF backsUpVelocities(vvResetVelocities_) THEN v_ ELSE velocityBackup_
    /\ vvLog' = Append(vvLog, [op |-> "elementSetup", v |-> v_,
                               pending |-> vvResetVelocities_])
    /\ UNCHANGED <<forceVars, nbVars, runVars, posVars, copyVars, registered, v_, resets, elParams, simStep, taskQueue,
                   writeOutStep_, lastStep_, isRegularSimulationEnd_, localStateBackup_,
                   vvResetVelocities_, assertion, saves, writes, finalConfiguration>>

\* lines 273-298: setLocalState(state), called by the domain decompositions
\* of setup time and of the first step, before that step is scheduled
SetLocalState ==
    /\ cr.dd
    /\ envPc \in {"constructed", "schedule"} /\ taskQueue = <<>>
    /\ NotYetScheduled /\ Len(vvLog) <= MaxDomDec
    /\ \E state \in LocalStates :
          /\ localNAtoms_' = state.natoms
          /\ x_' = state.x
          /\ v_' = state.v
          /\ box_' = state.box
          /\ previousX_' =
                copyPositionThreads(
                    [i \in 0 .. state.natoms - 1 |->
                        IF i \in DOMAIN previousX_ THEN previousX_[i] ELSE 0],
                    state.x, ompCfg, state.natoms, 0)
          /\ previousBox_' = state.box
          /\ ddpCount_' = state.ddp_count
          /\ velocityBackup_' =
                IF backsUpVelocities(vvResetVelocities_) THEN state.v ELSE velocityBackup_
          /\ vvLog' = Append(vvLog, [op |-> "setLocalState", v |-> state.v,
                                     pending |-> vvResetVelocities_])
    /\ UNCHANGED <<forceVars, nbVars, runVars, copyVars, registered, resets, elParams, simStep, envPc, taskQueue,
                   writeOutStep_, lastStep_, isRegularSimulationEnd_, localStateBackup_,
                   vvResetVelocities_, assertion, saves, writes, finalConfiguration>>

\* lines 493-511, 572-603: restoreCheckpointState, before setup; the master
\* reads box and ddpCount from the checkpoint, and without domain
\* decomposition positions and velocities are resized to the number of
\* atoms read and overwritten with those read; the global vectors and the
\* legacy global state it also writes are no variables here
RestoreCheckpointState ==
    /\ envPc = "constructed"
    /\ ~restored
    /\ restored' = TRUE
    /\ \E checkpointData \in Checkpoints :
          /\ IF cr.master
             THEN /\ box_' = checkpointData.box
                  /\ ddpCount_' = checkpointData.ddpCount
             ELSE UNCHANGED <<box_, ddpCount_>>
          /\ IF ~cr.dd
             THEN /\ x_' = resizedCopy(checkpointData.numAtoms, checkpointData.positions)
                  /\ v_' = resizedCopy(checkpointData.numAtoms, checkpointData.velocities)
             ELSE UNCHANGED <<x_, v_>>
    /\ UNCHANGED <<forceVars, nbVars, cr, localNAtoms_, previousX_, previousBox_, copyVars,
                   registered, velocityBackup_, vvLog, resets, elParams, simStep, envPc,
                   taskQueue, writeOutStep_, lastStep_, isRegularSimulationEnd_,
                   localStateBackup_, vvResetVelocities_, assertion, saves, writes,
                   finalConfiguration>>

\* a propagator of the integrator advances the velocities after setup
PropagateVelocities ==
    /\ envPc \in {"signalTrajectory", "signalLastStep", "schedule", "run"}
    /\ ~isPropagated(v_)
    /\ v_' = propagated(v_)
    /\ UNCHANGED <<forceVars, nbVars, runVars, posVars, copyVars, registered, velocityBackup_, vvLog, resets, elParams,
                   simStep, envPc, taskQueue, writeOutStep_, lastStep_,
                   isRegularSimulationEnd_, localStateBackup_, vvResetVelocities_,
                   assertion, saves, writes, finalConfiguration>>

NextSetup ==
    \/ ElementSetup
    \/ SetLocalState
    \/ RestoreCheckpointState
    \/ PropagateVelocities
    \/ NextElement

SpecSetup == InitSetup /\ [][NextSetup]_vars

\* ------------------------------------ StatePropagatorData::copyPosition
\* a position value no atom has: the previous positions are out of date
StalePositions(n) == Vector(n, MaxPos + 1)

InitCopy ==
    /\ ForceIdle
    /\ NbIdle
    /\ elParams = QuietElement
    /\ vvResetVelocities_ = FALSE
    /\ ElementConstructed
    /\ envPc = "signalTrajectory"
    /\ ompCfg \in OmpConfigs
    /\ localNAtoms_ \in 0 .. MaxLocalAtoms
    /\ x_ \in [0 .. localNAtoms_ - 1 -> 0 .. MaxPos]
    /\ previousX_ = StalePositions(localNAtoms_)
    /\ v_ = Vector(localNAtoms_, RVec(0))
    /\ cr = SingleRank
    /\ restored = FALSE
    /\ box_ = 1
    /\ previousBox_ = 0
    /\ ddpCount_ = 0
    /\ velocityBackup_ = EmptyVector
    /\ cth = [th \in Threads |-> "idle"]
    /\ copiedBy = Vector(MaxLocalAtoms, {})
    /\ vvLog = <<>>
    /\ resets = <<>>
    /\ registered = <<>>

\* lines 312-315: the parallel loop starts one iteration per thread
CopyPositionBegin ==
    /\ \A th \in Threads : cth[th] = "idle"
    /\ cth' = [th \in Threads |-> IF th < ompCfg.nth THEN "run" ELSE "idle"]
    /\ UNCHANGED <<forceVars, nbVars, runVars, posVars, ompCfg, copiedBy, registered, velVars, elParams,
                   simStep, envPc, taskQueue, writeOutStep_, lastStep_,
                   isRegularSimulationEnd_, localStateBackup_, vvResetVelocities_,
                   assertion, saves, writes, finalConfiguration>>

\* lines 317-319, 330-336: iteration th copies its range of atoms
CopyPositionThread(th) ==
    /\ cth[th] = "run"
    /\ LET start_th == startAtom(ompCfg, th, localNAtoms_)
           end_th == endAtom(ompCfg, th, localNAtoms_)
       IN  /\ previousX_' = copyPositionRange(previousX_, x_, start_th, end_th)
           /\ copiedBy' = [i \in DOMAIN copiedBy |->
                             IF start_th <= i /\ i < end_th
                             THEN copiedBy[i] \cup {th} ELSE copiedBy[i]]
    /\ cth' = [cth EXCEPT ![th] = "done"]
    /\ UNCHANGED <<forceVars, nbVars, runVars, localNAtoms_, x_, box_, previousBox_, ddpCount_, ompCfg,
                   registered, velVars, elParams, simStep, envPc, taskQueue,
                   writeOutStep_, lastStep_, isRegularSimulationEnd_, localStateBackup_,
                   vvResetVelocities_, assertion, saves, writes, finalConfiguration>>

\* line 327: after the loop the box is copied, and copyPosition returns
CopyPositionEnd ==
    /\ \A th \in Threads : th < ompCfg.nth => cth[th] = "done"
    /\ previousBox_' = box_
    /\ cth' = [th \in Threads |-> IF th < ompCfg.nth THEN "returned" ELSE "idle"]
    /\ UNCHANGED <<forceVars, nbVars, runVars, localNAtoms_, x_, previousX_, box_, ddpCount_, ompCfg,
                   copiedBy, registered, velVars, elParams, simStep, envPc, taskQueue,
                   writeOutStep_, lastStep_, isRegularSimulationEnd_, localStateBackup_,
                   vvResetVelocities_, assertion, saves, writes, finalConfiguration>>

NextCopy ==
    \/ CopyPositionBegin
    \/ \E th \in Threads : CopyPositionThread(th)
    \/ CopyPositionEnd

SpecCopy == InitCopy /\ [][NextCopy]_vars

\* ------------------------------------------------------ the timing tests
\* gmx_cycles_read(): the counter does not run backwards
CyclesRead(cycle) == cycle \in cycleClock .. MaxCycles /\ cycle <= cycleClock + 1

\* a start or stop of a counter, as it is logged
CounterEvent(op, name) == [op |-> op, name |-> name]

InitTiming ==
    /\ ForceIdle
    /\ ElementIdle
    /\ useCycleSubcounters \in BOOLEAN
    /\ timingTest \in TimingTests
    /\ TimingIdle
    /\ kernelCfg = [numLists |-> 1, clearF |-> TRUE, computeEnergy |-> FALSE,
                    singleEnergyGroup |-> TRUE]
    /\ KernelIdle
    /\ fepCfg = NoFep
    /\ FepIdle

\* the counters of the running test are counted: always for RunWallCycle,
\* with sub-counters in the build for RunWallCycleSub (line 109)
testRuns == timingTest = "RunWallCycle" \/ useCycleSubcounters

testStart(wc, name, cycle) ==
    IF timingTest = "RunWallCycle"
    THEN wallcycle_start(wc, name, cycle)
    ELSE wallcycle_sub_start(wc, name, cycle, useCycleSubcounters)

testStop(wc, name, cycle) ==
    IF timingTest = "RunWallCycle"
    THEN wallcycle_stop(wc, name, cycle)
    ELSE wallcycle_sub_stop(wc, name, cycle, useCycleSubcounters)

\* lines 91, 114: the enclosing counter is started
StartRef ==
    /\ tpc = "idle" /\ testRuns /\ pairs < MaxPairs
    /\ \E cycle \in 0 .. MaxCycles :
          /\ CyclesRead(cycle)
          /\ cycleClock' = cycle
          /\ wcycle' = testStart(wcycle, refOf(timingTest), cycle)
    /\ wcLog' = Append(wcLog, CounterEvent("start", refOf(timingTest)))
    /\ tpc' = "refStarted"
    /\ UNCHANGED <<forceVars, spdVars, fepVars, kernelVars, useCycleSubcounters, timingTest, pairs>>

\* lines 93, 115: the enclosed counter is started
StartProbe ==
    /\ tpc = "refStarted"
    /\ \E cycle \in 0 .. MaxCycles :
          /\ CyclesRead(cycle)
          /\ cycleClock' = cycle
          /\ wcycle' = testStart(wcycle, probeOf(timingTest), cycle)
    /\ wcLog' = Append(wcLog, CounterEvent("start", probeOf(timingTest)))
    /\ tpc' = "probeStarted"
    /\ UNCHANGED <<forceVars, spdVars, fepVars, kernelVars, useCycleSubcounters, timingTest, pairs>>

\* lines 94-95, 116-117: after the sleep the enclosed counter is stopped
StopProbe ==
    /\ tpc = "probeStarted"
    /\ \E cycle \in 0 .. MaxCycles :
          /\ CyclesRead(cycle)
          /\ cycleClock' = cycle
          /\ wcycle' = testStop(wcycle, probeOf(timingTest), cycle)
    /\ wcLog' = Append(wcLog, CounterEvent("stop", probeOf(timingTest)))
    /\ tpc' = "probeStopped"
    /\ UNCHANGED <<forceVars, spdVars, fepVars, kernelVars, useCycleSubcounters, timingTest, pairs>>

\* lines 96, 118: the enclosing counter is stopped
StopRef ==
    /\ tpc = "probeStopped"
    /\ \E cycle \in 0 .. MaxCycles :
          /\ CyclesRead(cycle)
          /\ cycleClock' = cycle
          /\ wcycle' = testStop(wcycle, refOf(timingTest), cycle)
    /\ wcLog' = Append(wcLog, CounterEvent("stop", refOf(timingTest)))
    /\ tpc' = "idle"
    /\ pairs' = pairs + 1
    /\ UNCHANGED <<forceVars, spdVars, fepVars, kernelVars, useCycleSubcounters, timingTest>>

NextTiming == StartRef \/ StartProbe \/ StopProbe \/ StopRef

SpecTiming == InitTiming /\ [][NextTiming]_vars

\* ------------------------------------------------ nbnxn_kernel_cpu steps
InitKernel ==
    /\ ForceIdle
    /\ ElementIdle
    /\ useCycleSubcounters \in BOOLEAN
    /\ timingTest = "RunWallCycle"
    /\ TimingIdle
    /\ kernelCfg \in KernelConfigs
    /\ KernelIdle
    /\ fepCfg = NoFep
    /\ FepIdle

\* a sub-counter call as logged, when the build has sub-counters
subLog(log, op, name) ==
    IF useCycleSubcounters THEN Append(log, CounterEvent(op, name)) ELSE log

\* lines 252-264: the NonbondedClear counter is started and the parallel
\* loop over the pair lists begins
KernelBegin ==
    /\ kpc = "idle"
    /\ \E cycle \in 0 .. MaxCycles :
          /\ CyclesRead(cycle)
          /\ cycleClock' = cycle
          /\ wcycle' = wallcycle_sub_start(wcycle, "NonbondedClear", cycle, useCycleSubcounters)
    /\ wcLog' = subLog(wcLog, "start", "NonbondedClear")
    /\ kth' = [nb \in Lists |-> IF nb < kernelCfg.numLists THEN "start" ELSE "idle"]
    /\ kpc' = "loop"
    /\ UNCHANGED <<forceVars, spdVars, fepVars, useCycleSubcounters, timingTest, tpc, pairs,
                   kernelCfg, nbat_out, vOut>>

\* lines 268-281: iteration nb clears its output buffer; the iteration of
\* the first list stops NonbondedClear and starts NonbondedKernel
KernelClear(nb) ==
    /\ kpc = "loop" /\ kth[nb] = "start"
    /\ nbat_out' = [nbat_out EXCEPT ![nb] = clearOutput(@, kernelCfg.clearF)]
    /\ IF switchesCounters(nb)
       THEN /\ \E stopped, started \in 0 .. MaxCycles :
                  /\ CyclesRead(stopped)
                  /\ started \in stopped .. MaxCycles /\ started <= stopped + 1
                  /\ cycleClock' = started
                  /\ wcycle' = wallcycle_sub_start(
                                   wallcycle_sub_stop(wcycle, "NonbondedClear", stopped,
                                                      useCycleSubcounters),
                                   "NonbondedKernel", started, useCycleSubcounters)
            /\ wcLog' = subLog(subLog(wcLog, "stop", "NonbondedClear"),
                               "start", "NonbondedKernel")
       ELSE UNCHANGED <<wcycle, cycleClock, wcLog>>
    /\ kth' = [kth EXCEPT ![nb] = "cleared"]
    /\ UNCHANGED <<forceVars, spdVars, fepVars, useCycleSubcounters, timingTest, tpc, pairs,
                   kernelCfg, kpc, vOut>>

\* lines 284-376: iteration nb runs the kernel of its list
KernelRun(nb) ==
    /\ kpc = "loop" /\ kth[nb] = "cleared"
    /\ nbat_out' = [nbat_out EXCEPT ![nb] = runKernel(@, nb, kernelCfg.computeEnergy)]
    /\ kth' = [kth EXCEPT ![nb] = "done"]
    /\ UNCHANGED <<forceVars, spdVars, fepVars, timingVars, kernelCfg, kpc, vOut>>

\* lines 378-383: after the loop NonbondedKernel is stopped and the
\* energies of the lists are reduced
KernelEnd ==
    /\ kpc = "loop"
    /\ \A nb \in Lists : nb < kernelCfg.numLists => kth[nb] = "done"
    /\ \E cycle \in 0 .. MaxCycles :
          /\ CyclesRead(cycle)
          /\ cycleClock' = cycle
          /\ wcycle' = wallcycle_sub_stop(wcycle, "NonbondedKernel", cycle, useCycleSubcounters)
    /\ wcLog' = subLog(wcLog, "stop", "NonbondedKernel")
    /\ vOut' = IF kernelCfg.computeEnergy
               THEN reduce_energies_over_lists(nbat_out, kernelCfg.numLists, vOut)
               ELSE vOut
    /\ kpc' = "returned"
    /\ UNCHANGED <<forceVars, spdVars, fepVars, useCycleSubcounters, timingTest, tpc, pairs,
                   kernelCfg, kth, nbat_out>>

NextKernel ==
    \/ KernelBegin
    \/ \E nb \in Lists : KernelClear(nb)
    \/ \E nb \in Lists : KernelRun(nb)
    \/ KernelEnd

SpecKernel == InitKernel /\ [][NextKernel]_vars

\* ---------------------------------------- dispatchFreeEnergyKernel steps
InitFep ==
    /\ ForceIdle
    /\ ElementIdle
    /\ useCycleSubcounters \in BOOLEAN
    /\ timingTest = "RunWallCycle"
    /\ TimingIdle
    /\ kernelCfg = [numLists |-> 1, clearF |-> TRUE, computeEnergy |-> FALSE,
                    singleEnergyGroup |-> TRUE]
    /\ KernelIdle
    /\ fepCfg \in FepConfigs
    /\ FepIdle

\* the loop iterations of a parallel loop over the lists, not yet run
iterationsToRun == [th \in Lists |-> IF th < fepCfg.numLists THEN "start" ELSE "idle"]

iterationsDone == \A th \in Lists : th < fepCfg.numLists => fth[th] = "done"

\* lines 509-515: without free-energy lists the function returns at once
FepNothingToDo ==
    /\ fpc = "idle"
    /\ nothingToDo(fepCfg)
    /\ fpc' = "returned"
    /\ UNCHANGED <<forceVars, spdVars, timingVars, kernelVars, fepCfg, fth, fi, dvdl_nb,
                   kernelFlags, kernelLambda, fepEnerd, forceWithShiftForces,
                   kernelCalls, accumulated>>

\* lines 517-546: flags, buffer and lambdas of the kernels at the current
\* lambda are set, the counter is started and the parallel loop begins
FepBegin ==
    /\ fpc = "idle"
    /\ ~nothingToDo(fepCfg)
    /\ dvdl_nb' = [j \in CouplingTypes |-> 0]
    /\ kernelFlags' = donb_flags(fepCfg)
    /\ kernelLambda' = CurrentLambda
    /\ \E cycle \in 0 .. MaxCycles :
          /\ CyclesRead(cycle)
          /\ cycleClock' = cycle
          /\ wcycle' = wallcycle_sub_start(wcycle, "NonbondedFep", cycle, useCycleSubcounters)
    /\ wcLog' = subLog(wcLog, "start", "NonbondedFep")
    /\ fth' = iterationsToRun
    /\ fpc' = "current"
    /\ UNCHANGED <<forceVars, spdVars, kernelVars, useCycleSubcounters, timingTest, tpc,
                   pairs, fepCfg, fi, fepEnerd, forceWithShiftForces, kernelCalls,
                   accumulated>>

\* lines 547-573 and 614-640: the kernel of list th; at the current lambda
\* it adds to the energy group pair terms, at a foreign lambda to the
\* foreign ones
FepKernel(th) ==
    /\ fpc \in {"current", "foreign"}
    /\ fth[th] = "start"
    /\ dvdl_nb' = kernelOnDvdl(fepCfg, th, kernelLambda, dvdl_nb)
    /\ fepEnerd' = IF fpc = "current"
                THEN [fepEnerd EXCEPT !.grpp =
                         kernelOnEnergy(fepCfg, th, kernelFlags, kernelLambda, @)]
                ELSE [fepEnerd EXCEPT !.foreign_grpp =
                         kernelOnEnergy(fepCfg, th, kernelFlags, kernelLambda, @)]
    /\ forceWithShiftForces' = kernelOnForce(fepCfg, th, kernelFlags, forceWithShiftForces)
    /\ kernelCalls' = kernelCalls \cup
                         {[pass |-> fpc, i |-> fi, th |-> th, flags |-> kernelFlags,
                           lambda |-> kernelLambda]}
    /\ fth' = [fth EXCEPT ![th] = "done"]
    /\ UNCHANGED <<forceVars, spdVars, timingVars, kernelVars, fepCfg, fpc, fi,
                   kernelFlags, kernelLambda, accumulated>>

\* lines 575-605: the dV/dlambda of the kernels is added to the energy
\* data; when the foreign energies are recalculated the kernel flags are
\* changed and the loop over the foreign lambdas begins
FepAddDvdl ==
    /\ fpc = "current"
    /\ iterationsDone
    /\ fepEnerd' = addDvdl(fepEnerd, dvdl_nb, fepCfg.sc_alpha)
    /\ IF recalculatesForeign(fepCfg)
       THEN /\ kernelFlags' = foreignKernelFlags(donb_flags(fepCfg))
            /\ fi' = 0
            /\ fpc' = "foreignLoop"
       ELSE /\ UNCHANGED <<kernelFlags, fi>>
            /\ fpc' = "stop"
    /\ UNCHANGED <<forceVars, spdVars, timingVars, kernelVars, fepCfg, fth, dvdl_nb,
                   kernelLambda, forceWithShiftForces, kernelCalls, accumulated>>

\* lines 605-613: index i of the loop resets the buffer and the foreign
\* energy data, sets the lambdas and begins the parallel loop; after the
\* last index the loop is left
FepForeignBegin ==
    /\ fpc = "foreignLoop"
    /\ IF fi < 1 + fepCfg.n_lambda
       THEN /\ dvdl_nb' = [j \in CouplingTypes |-> 0]
            /\ kernelLambda' = lam_i(fi, CurrentLambda)
            /\ fepEnerd' = reset_foreign_enerdata(fepEnerd)
            /\ fth' = iterationsToRun
            /\ fpc' = "foreign"
       ELSE /\ fpc' = "stop"
            /\ UNCHANGED <<dvdl_nb, kernelLambda, fepEnerd, fth>>
    /\ UNCHANGED <<forceVars, spdVars, timingVars, kernelVars, fepCfg, fi, kernelFlags,
                   forceWithShiftForces, kernelCalls, accumulated>>

\* lines 642-647: the foreign energy of index i is summed and accumulated
\* with the dV/dlambda of the index
FepForeignEnd ==
    /\ fpc = "foreign"
    /\ iterationsDone
    /\ fepEnerd' = accumulate(sum_epot(fepEnerd), fi, sum_epot(fepEnerd).foreign_term,
                           dvdl_nb["Vdw"] + dvdl_nb["Coul"])
    /\ accumulated' = Append(accumulated,
                             [i |-> fi, energy |-> sum_epot(fepEnerd).foreign_term,
                              dhdl |-> dvdl_nb["Vdw"] + dvdl_nb["Coul"]])
    /\ fi' = fi + 1
    /\ fpc' = "foreignLoop"
    /\ UNCHANGED <<forceVars, spdVars, timingVars, kernelVars, fepCfg, fth, dvdl_nb,
                   kernelFlags, kernelLambda, forceWithShiftForces, kernelCalls>>

\* line 650: the counter is stopped and the function returns
FepEnd ==
    /\ fpc = "stop"
    /\ \E cycle \in 0 .. MaxCycles :
          /\ CyclesRead(cycle)
          /\ cycleClock' = cycle
          /\ wcycle' = wallcycle_sub_stop(wcycle, "NonbondedFep", cycle, useCycleSubcounters)
    /\ wcLog' = subLog(wcLog, "stop", "NonbondedFep")
    /\ fpc' = "returned"
    /\ UNCHANGED <<forceVars, spdVars, kernelVars, useCycleSubcounters, timingTest, tpc,
                   pairs, fepCfg, fth, fi, dvdl_nb, kernelFlags, kernelLambda, fepEnerd,
                   forceWithShiftForces, kernelCalls, accumulated>>

NextFep ==
    \/ FepNothingToDo
    \/ FepBegin
    \/ \E th \in Lists : FepKernel(th)
    \/ FepAddDvdl
    \/ FepForeignBegin
    \/ FepForeignEnd
    \/ FepEnd

SpecFep == InitFep /\ [][NextFep]_vars

\* ------------------------------------------------------------ properties
InTrace(e) == \E i \in 1 .. Len(trace) : trace[i] = e

RECURSIVE SumFn(_, _)
\* g[0] + ... + g[n-1]
SumFn(g, n) == IF n = 0 THEN 0 ELSE g[n - 1] + SumFn(g, n - 1)

\* C1: when reduceEwaldThreadOuput has returned, each of the six fields of record 0
\* (the tensors element by element) is the sum over the records 0..nthreads-1 of the
\* value the field had when the reduction started.
C1_ReduceSumsAllFields ==
    pc # "Reduce" =>
        LET n == cfg.nthread_ewc
            d == ewc_t[0]
        IN  /\ d.Vcorr_q = SumFn([t \in Threads |-> ewc0[t].Vcorr_q], n)
            /\ d.Vcorr_lj = SumFn([t \in Threads |-> ewc0[t].Vcorr_lj], n)
            /\ \A c \in Couplings : d.dvdl[c] = SumFn([t \in Threads |-> ewc0[t].dvdl[c]], n)
            /\ \A i, j \in Dims :
                  /\ d.vir_q[i][j] = SumFn([t \in Threads |-> ewc0[t].vir_q[i][j]], n)
                  /\ d.vir_lj[i][j] = SumFn([t \in Threads |-> ewc0[t].vir_lj[i][j]], n)

\* a reduction over three records with different non-zero contents has returned
C1_Witness ==
    /\ pc # "Reduce" /\ cfg.nthread_ewc = 3 /\ rt = 3
    /\ ewc0[0] # ZeroRecord /\ ewc0[1] # ZeroRecord /\ ewc0[2] # ZeroRecord
    /\ ewc0[1] # ewc0[2]
    /\ ewc_t[0] # ewc0[0]

\* C2: whenever iteration t is about to call ewald_LRcorrection, all six fields of
\* record t are zero, whatever the record held when the call started.
C2_RecordZeroWhenWorkBegins ==
    \A t \in Threads : wpc[t] = "cleared" => ewc_t[t] = ZeroRecord

\* in a later step, an iteration is about to compute on a record that was non-zero
\* when the step started
C2_Witness ==
    \E t \in Threads :
        /\ t > 0 /\ t \in stale /\ 0 \in stale
        /\ wpc[t] = "cleared" /\ wpc[0] = "cleared"
        /\ ewc_t[t] = ZeroRecord

\* C3: the loop body starts exactly once for each index below nthreads and for no
\* other; an iteration t > 0 has cleared record t itself (and nobody else has) when it
\* computes; record 0 is cleared once, by the caller, as the first thing of the call,
\* and by no iteration.
C3_DispatchOncePerIndexAndClears ==
    /\ \A t \in Threads :
          /\ invoked[t] <= 1
          /\ t >= cfg.nthread_ewc => invoked[t] = 0
          /\ InTrace("join") /\ t < cfg.nthread_ewc => invoked[t] = 1
          /\ t > 0 /\ wpc[t] \in {"cleared", "done", "threw"} =>
                workerClears[t] = <<t>> /\ callerClears[t] = 0
          /\ t > 0 /\ wpc[t] \in {"idle", "start"} => workerClears[t] = <<>>
    /\ workerClears[0] = <<>>
    /\ InTrace("dispatch") =>
          /\ callerClears[0] = 1
          /\ trace[1] = "clear0"
          /\ \A i \in 2 .. Len(trace) : trace[i] # "clear0"

\* a dispatch over two of the three records has ended
C3_Witness ==
    /\ InTrace("join") /\ cfg.nthread_ewc = 2
    /\ invoked = [t \in Threads |-> IF t < 2 THEN 1 ELSE 0]
    /\ workerClears[1] = <<1>>

\* C4: record t is written by iteration t only, and no iteration writes a record
\* outside the parallel region (once the reduction has started, none is running).
C4_RecordsOwnedByTheirThread ==
    /\ \A r \in Threads : writers[r] \subseteq {r}
    /\ ~lateWrite
    /\ pc = "Reduce" \/ InTrace("reduced") => \A t \in Threads : ~Running(t)

\* two iterations have written their records while iteration 0 has not started
C4_Witness ==
    /\ pc = "Dispatch" /\ wpc[0] = "start"
    /\ writers[1] = {1} /\ writers[2] = {2} /\ writers[0] = {}
    /\ ewc_t[1] # ZeroRecord /\ ewc_t[2] # ZeroRecord

\* C5: the reduction runs only when every iteration of the dispatch has completed,
\* and the calling thread is inside the parallel region while any iteration runs.
C5_ReduceAfterAllWorkers ==
    /\ pc = "Reduce" \/ InTrace("join") =>
          \A t \in Threads : t < cfg.nthread_ewc => wpc[t] = "done"
    /\ (\E t \in Threads : Running(t)) => pc \in {"Dispatch", "Fatal"}

\* the reduction is under way after three iterations
C5_Witness ==
    /\ pc = "Reduce" /\ rt = 2 /\ cfg.nthread_ewc = 3
    /\ \A t \in Threads : wpc[t] = "done"

\* C6: the caller's accumulators change only in the merge, and when the call
\* dispatched the per-thread correction, the merge comes after every iteration has
\* completed, the region has ended and (nthreads > 1) the reduction has returned.
C6_CorrectionsReducedBeforeMerge ==
    /\ Accumulators # atStart => InTrace("merge")
    /\ InTrace("merge") /\ InTrace("dispatch") =>
          /\ \A t \in Threads : t < cfg.nthread_ewc => wpc[t] = "done"
          /\ InTrace("join")
          /\ cfg.nthread_ewc > 1 => InTrace("reduced") /\ rt = cfg.nthread_ewc
          /\ trace[Len(trace)] = "merge"

\* a merge that changed the accumulators after a reduction over three records
C6_Witness ==
    /\ InTrace("merge") /\ InTrace("reduced") /\ cfg.nthread_ewc = 3
    /\ Accumulators # atStart
    /\ enerd.dvdl_lin["Coul"] # atStart.enerd.dvdl_lin["Coul"]

\* C7: once anything of the call is merged, every sub-computation the call runs has
\* completed: the merge is the last thing the calling thread did, no iteration is
\* running, and each block the configuration calls for is in the call's history.
C7_NoMergeBeforeSubcomputations ==
    Accumulators # atStart \/ InTrace("merge") =>
        /\ InTrace("merge") /\ trace[Len(trace)] = "merge" /\ pc = "Idle"
        /\ \A t \in Threads : ~Running(t)
        /\ dispatchRuns(cfg) =>
              InTrace("join") /\ (cfg.nthread_ewc > 1 => InTrace("reduced"))
        /\ chargeCorrRuns(cfg) => InTrace("charge")
        /\ pmeSolveRuns(cfg, stepWork) => InTrace("pme")
        /\ tpiEnergyRuns(cfg) => InTrace("tpi")
        /\ ewaldSolveRuns(cfg) => InTrace("ewald")

\* a merge after the reduction, the net-charge correction, the mesh solve and do_ewald
C7_Witness ==
    /\ InTrace("merge") /\ InTrace("reduced") /\ InTrace("charge")
    /\ InTrace("pme") /\ InTrace("ewald")
    /\ Accumulators # atStart

\* the phase an entry of the call's history belongs to: 0 entering the block,
\* 1 CorrectionsComputing, 2 NetChargeCorrecting, 3 ReciprocalSolving, 4 Merged
PhaseOf(e) ==
    CASE e = "clear0" -> 0
      [] e \in {"dispatch", "join", "reduced"} -> 1
      [] e = "charge" -> 2
      [] e \in {"ddclose", "pme", "tpi", "ewald"} -> 3
      [] e = "merge" -> 4

PhasesSeen == {PhaseOf(trace[i]) : i \in 1 .. Len(trace)}

PhasesInOrder ==
    /\ \A i, j \in 1 .. Len(trace) : i < j => PhaseOf(trace[i]) <= PhaseOf(trace[j])
    /\ \A i, j \in 1 .. Len(trace) : trace[i] = "merge" /\ trace[j] = "merge" => i = j
    /\ pc = "Idle" => trace = <<>> \/ trace[Len(trace)] = "merge"
    /\ InTrace("merge") => pc = "Idle"

\* a phase is entered only in a call whose long-range block runs, a call
\* whose block does not run stays Idle, CorrectionsComputing is entered only
\* with an Ewald surface term and ReciprocalSolving only with PME on this
\* rank's CPU or plain Ewald
PhasesOnlyWhenCalledFor ==
    /\ 1 \in PhasesSeen => haveEwaldSurfaceContribution(cfg)
    /\ 3 \in PhasesSeen => computePmeOnCpu(cfg) \/ cfg.eeltype = "Ewald"
    /\ trace # <<>> =>
          /\ stepWork.computeNonbondedForces
          /\ computePmeOnCpu(cfg) \/ cfg.eeltype = "Ewald"
                \/ haveEwaldSurfaceContribution(cfg)
    /\ pc \notin {"Idle", "Fatal"} => trace # <<>>

\* C8 as stated: a step that reaches the merge went through CorrectionsComputing and
\* ReciprocalSolving (only NetChargeCorrecting is optional), in order.
C8_AsStated ==
    /\ PhasesInOrder
    /\ InTrace("merge") => {1, 3} \subseteq PhasesSeen

\* C8 as amended: the phases a step enters are entered in the order
\* CorrectionsComputing, NetChargeCorrecting, ReciprocalSolving, Merged, each at most
\* once and each of the first three only when the configuration calls for it; a step
\* that has started ends in Idle or in a fatal error.
C8_PhasesInOrderEachOptional ==
    /\ []PhasesInOrder
    /\ []PhasesOnlyWhenCalledFor
    /\ [](pc \notin {"Idle", "Fatal"} => <>(pc \in {"Idle", "Fatal"}))

\* a step went through all four phases and returned
C8_Witness ==
    /\ pc = "Idle" /\ PhasesSeen = {0, 1, 2, 3, 4}

\* C9 as stated: every reciprocal-space solve of a step (gmx_pme_do,
\* gmx_pme_calc_energy, do_ewald) comes after the load-balance region was closed in
\* that step.
C9_AsStated ==
    \A i \in 1 .. Len(trace) :
        trace[i] \in {"pme", "tpi", "ewald"} => \E j \in 1 .. (i - 1) : trace[j] = "ddclose"

\* C9 as amended: the load-balance region is closed exactly before each call of
\* gmx_pme_do, and only there.
C9_CloseBeforeMeshSolve ==
    \A i \in 1 .. Len(trace) :
        /\ trace[i] = "pme" => i > 1 /\ trace[i - 1] = "ddclose"
        /\ trace[i] = "ddclose" => i < Len(trace) /\ trace[i + 1] = "pme"

\* a mesh solve has run in a step that also ran do_ewald
C9_Witness ==
    /\ InTrace("pme") /\ InTrace("ewald") /\ InTrace("ddclose")

\* C10: when an iteration has thrown, the process has ended in a fatal error: the
\* region was never left, nothing was reduced, and the caller's accumulators are as
\* they were when the call started.
C10_WorkerExceptionAbortsStep ==
    (\E t \in Threads : wpc[t] = "threw") =>
        /\ pc = "Fatal" /\ fatal = "worker"
        /\ ~InTrace("join") /\ ~InTrace("reduced") /\ ~InTrace("merge")
        /\ Accumulators = atStart

\* in a second step an iteration threw after another one had produced its result
C10_Witness ==
    \E t, u \in Threads :
        /\ t # u /\ wpc[t] = "threw" /\ wpc[u] = "done" /\ ewc_t[u] # ZeroRecord
        /\ stepNo = 1 /\ atStart.enerd # ZeroEnerd

\* C11 as stated: when gmx_pme_do has reported a non-zero status, the step has ended
\* in a fatal error and the energy terms, the virial, dV/dlambda and the per-particle
\* force buffer are all as they were when the step started.
C11_AsStated ==
    status # 0 =>
        /\ pc = "Fatal"
        /\ Accumulators = atStart
        /\ force_ = forceAtStart

\* C11 as amended: when gmx_pme_do has reported a non-zero status, the step has ended
\* in a fatal error right after that call, nothing was merged, and the energy terms,
\* the virial and dV/dlambda are as they were when the step started (the force buffer,
\* which is modified in place, is not covered).
C11_PmeFailureMergesNothing ==
    status # 0 =>
        /\ pc = "Fatal" /\ fatal = "pme"
        /\ trace[Len(trace)] = "pme" /\ ~InTrace("merge")
        /\ Accumulators = atStart

\* in a second step gmx_pme_do failed after the corrections had filled record 0 and
\* the correction threads had written forces
C11_Witness ==
    /\ status # 0 /\ fatal = "pme" /\ stepNo = 1
    /\ atStart.enerd # ZeroEnerd
    /\ InTrace("join") /\ ewc_t[0].Vcorr_q # 0
    /\ force_ > forceAtStart

\* the reciprocal Coulomb energy of a step: what the last solver of the step that
\* sets Vlr_q returned, 0 when none ran
ReciprocalEnergyQ ==
    IF ewaldSolveRuns(cfg) THEN EwaldEnergy(sys)
    ELSE IF tpiEnergyRuns(cfg) THEN gmx_pme_calc_energy(sys)
    ELSE IF pmeSolveRuns(cfg, stepWork) THEN PmeEnergyQ(cfg, sys)
    ELSE 0

\* the reciprocal LJ energy of a step
ReciprocalEnergyLJ ==
    IF pmeSolveRuns(cfg, stepWork) THEN PmeEnergyLJ(cfg, sys) ELSE 0

\* C12: when a step has merged, the Coulomb reciprocal term is the reciprocal Coulomb
\* energy plus the Coulomb correction energy of record 0 and the LJ reciprocal term is
\* the reciprocal LJ energy plus the LJ correction energy, whatever the terms held
\* before; each dV/dlambda accumulator and each virial element is its value at the
\* start of the step plus the value of record 0.
C12_MergeOverwritesTermsAddsRest ==
    InTrace("merge") =>
        /\ Vlr_q = ReciprocalEnergyQ /\ Vlr_lj = ReciprocalEnergyLJ
        /\ enerd.term.F_COUL_RECIP = Vlr_q + ewc_t[0].Vcorr_q
        /\ enerd.term.F_LJ_RECIP = Vlr_lj + ewc_t[0].Vcorr_lj
        /\ \A c \in Couplings :
              enerd.dvdl_lin[c] = atStart.enerd.dvdl_lin[c] + ewc_t[0].dvdl[c]
        /\ \A i, j \in Dims :
              virial[i][j] = atStart.virial[i][j] + ewc_t[0].vir_q[i][j]
                                                  + ewc_t[0].vir_lj[i][j]

\* a second merge, onto non-zero terms, dV/dlambda and virial, of a non-zero record
C12_Witness ==
    /\ InTrace("merge") /\ stepNo = 2
    /\ atStart.enerd.term.F_COUL_RECIP # 0 /\ atStart.enerd.term.F_LJ_RECIP # 0
    /\ atStart.enerd.dvdl_lin["Coul"] # 0 /\ atStart.virial # ZeroMat
    /\ ewc_t[0].Vcorr_q # 0 /\ ewc_t[0].vir_lj # ZeroMat /\ ewc_t[0].dvdl["Vdw"] # 0

\* C13: when the dispatch has ended and the reduction (with more than one thread) has
\* returned, record 0 is the record a run with one thread leaves there: cleared by the
\* caller, then filled by one call of ewald_LRcorrection over all atoms, whatever
\* nthreads is (the reduction being skipped when it is 1).
C13_ThreadCountInvariant ==
    pc = "Charge" /\ InTrace("join") =>
        /\ ewc_t[0] = ewald_LRcorrection(ZeroRecord, sys, 0, 1)
        /\ InTrace("reduced") <=> cfg.nthread_ewc > 1

\* a reduction over three records, each with a non-zero share, has returned in a
\* step that started on non-zero records
C13_Witness ==
    /\ pc = "Charge" /\ InTrace("reduced") /\ cfg.nthread_ewc = 3
    /\ \A t \in Threads : ewc0[t].Vcorr_q # 0 /\ ewc0[t].dvdl["Coul"] # 0
    /\ ewc_t[0] # ewc0[0]
    /\ stale # {}

\* what a step with the inputs (cfg, stepWork, sys) contributes, as a function of
\* those inputs alone: the corrections and solvers the configuration calls for,
\* applied one after the other to a zero record by a single thread
OutputOfInputs ==
    LET r1 == IF dispatchRuns(cfg) THEN ewald_LRcorrection(ZeroRecord, sys, 0, 1)
              ELSE ZeroRecord
        r2 == IF chargeCorrRuns(cfg) THEN ewald_charge_correction(r1, cfg, sys) ELSE r1
        r3 == IF pmeSolveRuns(cfg, stepWork) THEN gmx_pme_do(r2, cfg, sys) ELSE r2
    IN  IF ewaldSolveRuns(cfg) THEN do_ewald(r3, sys) ELSE r3

\* C14: the energy terms a step leaves, and what it adds to dV/dlambda and to the
\* virial, are a function of the step's inputs alone: they are the same in a first
\* step on zero records and in a later step on the records, locals and accumulators
\* an earlier step left, for every thread count and interleaving.
C14_OutputDependsOnInputsOnly ==
    InTrace("merge") =>
        LET out == OutputOfInputs
        IN  /\ enerd.term.F_COUL_RECIP = ReciprocalEnergyQ + out.Vcorr_q
            /\ enerd.term.F_LJ_RECIP = ReciprocalEnergyLJ + out.Vcorr_lj
            /\ \A c \in Couplings :
                  enerd.dvdl_lin[c] - atStart.enerd.dvdl_lin[c] = out.dvdl[c]
            /\ \A i, j \in Dims :
                  virial[i][j] - atStart.virial[i][j] = out.vir_q[i][j] + out.vir_lj[i][j]

\* a second step has merged after starting on non-zero records of three threads and
\* non-zero accumulators
C14_Witness ==
    /\ InTrace("merge") /\ stepNo = 2 /\ cfg.nthread_ewc = 3
    /\ {0, 1, 2} \subseteq stale
    /\ atStart.enerd # ZeroEnerd /\ atStart.virial # ZeroMat
    /\ enerd.dvdl_lin["Coul"] # atStart.enerd.dvdl_lin["Coul"]

RECURSIVE ReduceFrom(_, _, _, _)
\* dest after adding recs[t], ..., recs[n-1] to it
ReduceFrom(dest, recs, t, n) ==
    IF t >= n THEN dest ELSE ReduceFrom(reduceBody(dest, recs[t]), recs, t + 1, n)

\* the position of the first entry e of the call's history
IndexOf(e) == CHOOSE i \in 1 .. Len(trace) : trace[i] = e

\* record 0 had the net-charge correction run first, on the cleared record, and the
\* per-thread correction and the reduction after it
ChargeFirstRecord ==
    ReduceFrom(ewald_LRcorrection(ewald_charge_correction(ZeroRecord, cfg, sys), sys, 0,
                                  cfg.nthread_ewc),
               ewc0, reduceFirst, cfg.nthread_ewc)

\* C15 as stated: in a step that runs both, the net-charge correction and the
\* per-thread correction write disjoint slots, and record 0 is what it would be had
\* they run in the other order.
C15_AsStated ==
    pc = "Pme" /\ InTrace("charge") /\ InTrace("join") =>
        /\ \A t \in dispatchRange(cfg.nthread_ewc) : workerSlots(t) \cap chargeSlots = {}
        /\ ewc_t[0] = ChargeFirstRecord

\* C15 as amended: the net-charge correction writes record 0 only, sharing its
\* Vcorr_q and dvdl[Coul] with iteration 0 of the per-thread correction and no slot
\* with any other iteration; it runs after the dispatch has ended and the reduction
\* has returned, while no iteration is running, and adds its contribution to the
\* reduced record.
C15_ChargeCorrectionAfterReduction ==
    /\ \A t \in Threads : t > 0 => workerSlots(t) \cap chargeSlots = {}
    /\ workerSlots(0) \cap chargeSlots = {<<0, "Vcorr_q">>, <<0, "dvdl_Coul">>}
    /\ InTrace("charge") /\ InTrace("dispatch") =>
          /\ InTrace("join") /\ IndexOf("join") < IndexOf("charge")
          /\ cfg.nthread_ewc > 1 =>
                InTrace("reduced") /\ IndexOf("reduced") < IndexOf("charge")
          /\ \A t \in Threads : ~Running(t)
    /\ pc = "Pme" /\ InTrace("charge") /\ InTrace("join") =>
          ewc_t[0] = ewald_charge_correction(
                         ReduceFrom(ewc0[0], ewc0, reduceFirst, cfg.nthread_ewc), cfg, sys)

\* the net-charge correction of a charged system has run after a reduction over
\* three non-zero records
C15_Witness ==
    /\ pc = "Pme" /\ InTrace("charge") /\ InTrace("reduced")
    /\ cfg.nthread_ewc = 3 /\ cfg.qsum # 0
    /\ \A t \in Threads : ewc0[t].Vcorr_q # 0
    /\ ewc_t[0].vir_q # ZeroMat

\* how often e is in the call's history
CountOf(e) == Cardinality({i \in 1 .. Len(trace) : trace[i] = e})

\* C16: in a step ewald_charge_correction is called at most once, by the calling
\* thread outside the parallel region (right after the clear of record 0, the end of
\* the region or the reduction), and no iteration of the dispatch is running when it
\* is called or afterwards.
C16_ChargeCorrectionOnceSingleThread ==
    /\ CountOf("charge") <= 1
    /\ pc = "Charge" \/ InTrace("charge") => \A t \in Threads : ~Running(t)
    /\ InTrace("charge") =>
          /\ trace[IndexOf("charge") - 1] \in {"clear0", "join", "reduced"}
          /\ InTrace("dispatch") => IndexOf("join") < IndexOf("charge")

\* the net-charge correction has run in a second step, after a dispatch over three
\* threads
C16_Witness ==
    /\ InTrace("charge") /\ InTrace("dispatch") /\ cfg.nthread_ewc = 3
    /\ stepNo = 1 /\ cfg.qsum # 0
    /\ \A t \in Threads : wpc[t] = "done"

\* C17: the reciprocal solvers are called by the calling thread outside the parallel
\* region: no iteration of the dispatch is running when a solver is about to run or
\* has run, and a solver of a step that dispatched comes after the end of the region;
\* the Ewald table changes only in do_ewald, hence at no moment at which an iteration
\* is running.
C17_SolverAndTableOutsideDispatch ==
    /\ [](pc \in {"Pme", "Tpi", "Ewald"} \/ InTrace("pme") \/ InTrace("tpi")
               \/ InTrace("ewald")
            => /\ \A t \in Threads : ~Running(t)
               /\ InTrace("dispatch") => InTrace("join"))
    /\ [][ewald_table' # ewald_table =>
             /\ \A t \in Threads : ~Running(t)
             /\ pc = "Ewald" /\ trace' = Append(trace, "ewald")]_vars

\* do_ewald has refilled a table an earlier step had filled differently, in a step
\* that ran the per-thread correction on three threads
C17_Witness ==
    /\ InTrace("ewald") /\ InTrace("join") /\ cfg.nthread_ewc = 3
    /\ stepNo = 1 /\ ewald_table.size = NumAtoms
    /\ ewald_table.fill = 2 /\ atStart.enerd.term.F_COUL_RECIP = EwaldEnergy([x |-> 0])

\* what the reciprocal solvers of a step add to a zero record
SolversOnly ==
    LET r == IF pmeSolveRuns(cfg, stepWork) THEN gmx_pme_do(ZeroRecord, cfg, sys)
             ELSE ZeroRecord
    IN  IF ewaldSolveRuns(cfg) THEN do_ewald(r, sys) ELSE r

\* C18: in a step in which neither the per-thread correction nor the net-charge
\* correction runs, record 0 is zero in all its fields when the solvers start, the
\* merged Coulomb reciprocal term is the reciprocal Coulomb energy alone, and
\* dV/dlambda and the virial grow by what the solvers added and nothing else.
C18_InapplicableCorrectionsAddZero ==
    ~dispatchRuns(cfg) /\ ~chargeCorrRuns(cfg) =>
        /\ pc = "Pme" => ewc_t[0] = ZeroRecord
        /\ InTrace("merge") =>
              /\ ewc_t[0].Vcorr_q = 0 /\ ewc_t[0].Vcorr_lj = 0
              /\ enerd.term.F_COUL_RECIP = ReciprocalEnergyQ
              /\ \A c \in Couplings :
                    enerd.dvdl_lin[c] = atStart.enerd.dvdl_lin[c] + SolversOnly.dvdl[c]
              /\ \A i, j \in Dims :
                    virial[i][j] = atStart.virial[i][j] + SolversOnly.vir_q[i][j]
                                                        + SolversOnly.vir_lj[i][j]

\* a second step without corrections has merged a non-zero solver result, having
\* started on a record 0 the first step left non-zero
C18_Witness ==
    /\ ~dispatchRuns(cfg) /\ ~chargeCorrRuns(cfg)
    /\ InTrace("merge") /\ stepNo = 2 /\ 0 \in stale
    /\ enerd.term.F_COUL_RECIP # 0 /\ virial # atStart.virial

\* record 0 when the net-charge correction is reached: the reduced per-thread
\* records when the step dispatched, a zero record otherwise
RecordBeforeCharge ==
    IF InTrace("join") THEN ReduceFrom(ewc0[0], ewc0, reduceFirst, cfg.nthread_ewc)
    ELSE ZeroRecord

\* C19: for a system of net charge 0, whatever the volume of the box,
\* ewald_charge_correction returns the energy 0 and adds 0 to every element of the
\* virial: record 0 is after the call what it was before it.
C19_NeutralSystemNoChargeCorrection ==
    cfg.qsum = 0 =>
        /\ ChargeCorrEnergy(cfg.qsum, BoxVolume(sys)) = 0
        /\ pc = "Pme" /\ InTrace("charge") =>
              /\ ewc_t[0] = RecordBeforeCharge
              /\ InTrace("join") \/ ewc_t[0].vir_q = ZeroMat

\* the correction has run for a neutral system in the larger box, on a record the
\* per-thread correction had filled
C19_Witness ==
    /\ cfg.qsum = 0 /\ pc = "Pme" /\ InTrace("charge") /\ InTrace("join")
    /\ BoxVolume(sys) = MaxVal + 1
    /\ ewc_t[0].Vcorr_q # 0

\* C20: a record clearEwaldThreadOutput was applied to, once or twice, has its two
\* correction energies, its two dV/dlambda and the nine elements of each of its two
\* tensors at zero, whatever it held; a record it was not applied to is as it was.
C20_ClearZeroesAllFieldsOfOneRecord ==
    \A t \in Threads :
        /\ callerClears[t] >= 1 =>
              /\ ewc_t[t].Vcorr_q = 0 /\ ewc_t[t].Vcorr_lj = 0
              /\ ewc_t[t].dvdl["Coul"] = 0 /\ ewc_t[t].dvdl["Vdw"] = 0
              /\ \A i, j \in Dims : ewc_t[t].vir_q[i][j] = 0 /\ ewc_t[t].vir_lj[i][j] = 0
              /\ DOMAIN ewc_t[t] = DOMAIN ZeroRecord
        /\ callerClears[t] = 0 => ewc_t[t] = ewc0[t]

\* one record with all fields non-zero was cleared twice, another one once, and a
\* third non-zero record was left alone
C20_Witness ==
    \E t, u, v \in Threads :
        /\ callerClears[t] = 2 /\ callerClears[u] = 1 /\ callerClears[v] = 0
        /\ ewc0[t] = SeedRecord(MaxSeed) /\ ewc0[u] # ZeroRecord
        /\ ewc_t[v] # ZeroRecord

\* C21: while the reduction runs, with the loop index at rt, record 0 holds what it
\* held when the reduction started plus the records 1, 2, ..., rt-1, added in that
\* order by the calling thread while no iteration of the dispatch runs; this is so
\* in every interleaving of the iterations that came before.
C21_ReductionInAscendingOrder ==
    pc = "Reduce" =>
        /\ rt \in reduceFirst .. cfg.nthread_ewc
        /\ ewc_t[0] = ReduceFrom(ewc0[0], ewc0, reduceFirst, rt)
        /\ \A t \in Threads : t > 0 => ewc_t[t] = ewc0[t]
        /\ \A t \in Threads : ~Running(t)

\* of three different non-zero records, record 1 has been added and record 2 not yet
C21_Witness ==
    /\ pc = "Reduce" /\ rt = 2 /\ cfg.nthread_ewc = 3
    /\ ewc0[1] # ewc0[2] /\ ewc0[1] # ZeroRecord /\ ewc0[2] # ZeroRecord
    /\ ewc_t[0] = reduceBody(ewc0[0], ewc0[1])
    /\ ewc_t[0] # reduceBody(ewc0[0], ewc0[2])

\* the orders in which the records 1 .. n-1 can be summed
SummationOrders(n) ==
    {p \in [1 .. (n - 1) -> 1 .. (n - 1)] : \A i, j \in 1 .. (n - 1) : p[i] = p[j] => i = j}

RECURSIVE ReduceInOrder(_, _, _, _)
\* dest after adding recs[p[k]], recs[p[k+1]], ..., the records in the order p
ReduceInOrder(dest, recs, p, k) ==
    IF k > Len(p) THEN dest
    ELSE ReduceInOrder(reduceBody(dest, recs[p[k]]), recs, p, k + 1)

\* C22: when the reduction has returned, record 0 is what adding the records
\* 1 .. nthreads-1 of the start of the reduction to it gives in any order whatever.
C22_ReductionOrderIrrelevant ==
    pc # "Reduce" =>
        \A p \in SummationOrders(cfg.nthread_ewc) :
            ewc_t[0] = ReduceInOrder(ewc0[0], ewc0, p, 1)

\* a reduction over three records has returned whose records 1 and 2 differ in every
\* field, so that the two orders add different values first
C22_Witness ==
    /\ pc # "Reduce" /\ cfg.nthread_ewc = 3 /\ rt = 3
    /\ ewc0[1].Vcorr_q > ewc0[2].Vcorr_q /\ ewc0[2].Vcorr_q > 0
    /\ ewc0[1].vir_lj # ewc0[2].vir_lj
    /\ Cardinality(SummationOrders(cfg.nthread_ewc)) = 2

\* C23: a call for a step that does not compute nonbonded forces, or in a run that
\* has neither PME on this rank's CPU nor plain Ewald nor an Ewald surface term,
\* returns without a clear, dispatch, solve or merge, and leaves the energy terms,
\* dV/dlambda, the virial, the force buffer, every per-thread record and the Ewald
\* table as they were.
C23_NothingDoneUnlessBlockApplies ==
    [][pc = "Idle"
       /\ ~(stepWork'.computeNonbondedForces
            /\ (computePmeOnCpu(cfg) \/ cfg.eeltype = "Ewald"
                  \/ haveEwaldSurfaceContribution(cfg)))
       => /\ pc' = "Idle" /\ trace' = <<>>
          /\ UNCHANGED <<enerd, virial, force_, ewc_t, ewald_table>>
          /\ \A t \in Threads : wpc'[t] = "idle"]_vars

\* a second call was skipped, for a step without nonbonded forces, in a run whose
\* first call had filled the accumulators and the records
C23_Witness ==
    /\ pc = "Idle" /\ trace = <<>> /\ stepNo = 2
    /\ ~stepWork.computeNonbondedForces
    /\ computePmeOnCpu(cfg) /\ haveEwaldSurfaceContribution(cfg)
    /\ enerd # ZeroEnerd /\ virial # ZeroMat /\ force_ > 0
    /\ {0, 1} \subseteq stale

\* C24: in a run without an Ewald surface contribution (or with neither Ewald-family
\* electrostatics nor LJ-PME) no step starts the parallel region, an iteration or the
\* reduction, and no record other than record 0 is cleared, written or added.
C24_DispatchOnlyWithSurfaceTerm ==
    ~(haveEwaldSurfaceContribution(cfg)
      /\ (EEL_PME_EWALD(cfg.eeltype) \/ EVDW_PME(cfg))) =>
        /\ ~InTrace("dispatch") /\ ~InTrace("join") /\ ~InTrace("reduced")
        /\ pc \notin {"Dispatch", "Reduce"}
        /\ \A t \in Threads :
              /\ wpc[t] = "idle" /\ invoked[t] = 0
              /\ workerClears[t] = <<>> /\ writers[t] = {}
              /\ t > 0 => ewc_t[t] = ZeroRecord /\ callerClears[t] = 0

\* a second step of a run with three records and no surface term has merged what
\* the solvers gave
C24_Witness ==
    /\ ~haveEwaldSurfaceContribution(cfg) /\ cfg.nthread_ewc = 3
    /\ InTrace("merge") /\ stepNo = 2
    /\ ewc_t[0] # ZeroRecord /\ ewc_t[1] = ZeroRecord /\ ewc_t[2] = ZeroRecord
    /\ InTrace("charge") /\ InTrace("pme")

\* C25 as stated: in a run with n_tpi > 0 no step applies the net-charge correction,
\* the mesh solve and the load-balance close run only in steps whose state changed,
\* and the reciprocal Coulomb energy a step merges is the grid energy of the test
\* molecule.
C25_AsStated ==
    cfg.n_tpi > 0 =>
        /\ ~InTrace("charge")
        /\ InTrace("pme") \/ InTrace("ddclose") => stepWork.stateChanged
        /\ InTrace("merge") =>
              /\ Vlr_q = gmx_pme_calc_energy(sys)
              /\ enerd.term.F_COUL_RECIP = gmx_pme_calc_energy(sys) + ewc_t[0].Vcorr_q

\* C25 as amended: in a run with n_tpi > 0 no step applies the net-charge correction
\* and the mesh solve and the load-balance close run only in steps whose state
\* changed; when PME is computed on this rank's CPU and the electrostatics is not
\* plain Ewald, the reciprocal Coulomb energy a step merges is the grid energy of the
\* test molecule, also in a step whose mesh solve ran.
C25_TestParticleRun ==
    cfg.n_tpi > 0 =>
        /\ ~InTrace("charge")
        /\ InTrace("pme") \/ InTrace("ddclose") => stepWork.stateChanged
        /\ InTrace("merge") /\ computePmeOnCpu(cfg) /\ cfg.eeltype # "Ewald" =>
              /\ InTrace("tpi")
              /\ Vlr_q = gmx_pme_calc_energy(sys)
              /\ enerd.term.F_COUL_RECIP = gmx_pme_calc_energy(sys) + ewc_t[0].Vcorr_q

\* a test-particle step whose state changed has merged the grid energy after the
\* mesh solve had returned another one, and the step before it ran no mesh solve
C25_Witness ==
    /\ cfg.n_tpi > 0 /\ EEL_PME(cfg.eeltype) /\ cfg.qsum # 0
    /\ InTrace("merge") /\ InTrace("pme") /\ InTrace("tpi") /\ stepNo = 2
    /\ stepWork.stateChanged
    /\ Vlr_q # PmeEnergyQ(cfg, sys)
    /\ atStart.virial = ZeroMat /\ atStart.enerd.term.F_COUL_RECIP # 0

\* C26: the LJ correction energy of every record is zero in every state of a run, at
\* the merge in particular, so the LJ reciprocal term a step merges is the reciprocal
\* LJ energy of the solver alone.
C26_LjCorrectionEnergyAlwaysZero ==
    /\ \A t \in Threads : ewc_t[t].Vcorr_lj = 0
    /\ InTrace("merge") =>
          /\ enerd.term.F_LJ_RECIP = Vlr_lj
          /\ enerd.term.F_LJ_RECIP = ReciprocalEnergyLJ

\* a step with LJ-PME has merged a non-zero LJ energy after a reduction over three
\* records and the net-charge correction of a charged system
C26_Witness ==
    /\ InTrace("merge") /\ InTrace("reduced") /\ InTrace("charge") /\ InTrace("pme")
    /\ cfg.nthread_ewc = 3 /\ cfg.qsum # 0 /\ EVDW_PME(cfg)
    /\ enerd.term.F_LJ_RECIP # 0 /\ ewc_t[0].Vcorr_q # 0 /\ ewc_t[0].vir_lj # ZeroMat

\* the records of the start of the reduction with those of index >= n set to zero
WithoutRecordsFrom(n) == [t \in Threads |-> IF t < n THEN ewc0[t] ELSE ZeroRecord]

\* C27: during and after the reduction every record other than record 0 holds what
\* it held when the reduction started, and record 0 ends as it would have with
\* different contents in the records of index >= nthreads.
C27_ReductionWritesRecordZeroOnly ==
    /\ \A t \in Threads : t > 0 => ewc_t[t] = ewc0[t]
    /\ pc # "Reduce" =>
          ewc_t[0] = ReduceFrom(ewc0[0], WithoutRecordsFrom(cfg.nthread_ewc),
                                reduceFirst, cfg.nthread_ewc)

\* a reduction over two records has returned and changed record 0, with a non-zero
\* third record beyond nthreads
C27_Witness ==
    /\ pc # "Reduce" /\ cfg.nthread_ewc = 2 /\ rt = 2
    /\ ewc_t[0] # ewc0[0] /\ ewc0[0] # ZeroRecord
    /\ ewc_t[1] # ZeroRecord /\ ewc_t[2] = SeedRecord(MaxSeed)

\* the backup that saveState takes at a step
BackupOf(step) == {localState(step, elParams.freeEnergyPerturbationData_)}

\* C28: saveState never runs while an earlier backup is still held: every
\* call of saveState finds no backup, and the backup of the call before it
\* was by then passed to the trajectory files by write and released
C28_SaveStateFindsNoBackup ==
    /\ assertion # "saveState"
    /\ \A i \in DOMAIN saves :
          /\ saves[i].held = {}
          /\ i > 1 =>
                \E j \in DOMAIN writes :
                   /\ writes[j].step = saves[i - 1].step
                   /\ writes[j].read = BackupOf(saves[i - 1].step)
                   /\ writes[j].left = {}

\* two backups were taken in one run, at different steps
C28_Witness ==
    /\ Len(saves) >= 2
    /\ saves[1].step # saves[2].step
    /\ localStateBackup_ = BackupOf(saves[2].step)

\* C29: a call of write for a step with an output flag due finds the backup
\* that saveState took for that same step; a call with no flag due neither
\* reads the backup nor changes it
C29_WriteFindsBackupOfItsStep ==
    /\ assertion # "write"
    /\ \A j \in DOMAIN writes :
          IF writes[j].flags # {}
          THEN /\ writes[j].held = BackupOf(writes[j].step)
               /\ writes[j].read = writes[j].held
               /\ \E i \in DOMAIN saves : saves[i].step = writes[j].step
          ELSE /\ writes[j].read = {}
               /\ writes[j].left = writes[j].held

\* write ran with flags due, and ran with no flag due while a backup was held
C29_Witness ==
    /\ \E j \in DOMAIN writes : writes[j].flags # {} /\ writes[j].read # {}
    /\ \E j \in DOMAIN writes :
          writes[j].flags = {} /\ writes[j].held # {} /\ writes[j].left # {}

\* C30: the teardown of a regular end with final-configuration writing finds
\* the backup of the last step; a write with output due kept the backup
\* exactly when its step was the last step of a regular end, and released it
\* otherwise; and after the teardown a backup is held exactly when the last
\* step was a regular end with a backup taken, or final-configuration
\* writing took a backup at a last step with no output due, which no write
\* releases, also after an early stop
C30_TeardownFindsLastStepBackup ==
    /\ assertion # "teardown"
    /\ (envPc = "done" /\ elParams.writeFinalConfiguration_ /\ isRegularSimulationEnd_)
          => /\ localStateBackup_ = BackupOf(lastStep_)
             /\ finalConfiguration
                   = IF cr.master THEN <<BackupOf(lastStep_)>> ELSE <<>>
    /\ \A j \in DOMAIN writes :
          writes[j].flags # {} =>
             IF writes[j].step = lastStep_ /\ isRegularSimulationEnd_
             THEN writes[j].left = writes[j].held
             ELSE writes[j].left = {}
    /\ envPc = "done" =>
          /\ localStateBackup_ \in {{}, BackupOf(lastStep_)}
          /\ localStateBackup_ # {} <=>
                \/ isRegularSimulationEnd_ /\ mdof_flags(elParams, lastStep_) # {}
                \/ /\ elParams.writeFinalConfiguration_
                   /\ isRegularSimulationEnd_ \/ mdof_flags(elParams, lastStep_) = {}

\* C30 as stated: the teardown of a regular end with final-configuration
\* writing finds a backup, the backup of the last step of a regular end is
\* kept by write, and in every other case the backup taken was released by
\* write, so that none is held when the run is over
C30_AsStated ==
    /\ assertion # "teardown"
    /\ (envPc = "done" /\ elParams.writeFinalConfiguration_ /\ isRegularSimulationEnd_)
          => localStateBackup_ = BackupOf(lastStep_)
    /\ \A j \in DOMAIN writes :
          (writes[j].flags # {} /\ writes[j].step = lastStep_ /\ isRegularSimulationEnd_)
             => writes[j].left = writes[j].held
    /\ (envPc = "done" /\ ~isRegularSimulationEnd_) => localStateBackup_ = {}

\* the final configuration was written from a backup that write had written
\* and kept, after an earlier write released its own
C30_Witness ==
    /\ envPc = "done"
    /\ finalConfiguration = <<BackupOf(lastStep_)>>
    /\ \E j \in DOMAIN writes :
          writes[j].step = lastStep_ /\ writes[j].flags # {} /\ writes[j].left # {}
    /\ \E j \in DOMAIN writes :
          writes[j].step # lastStep_ /\ writes[j].flags # {} /\ writes[j].left = {}

\* C31: a velocity reset uses the velocities set by the latest elementSetup
\* or setLocalState that ran before the first step was scheduled, all of
\* which ran with the reset pending, and leaves the velocities equal to them
C31_ResetRestoresLatestLocalState ==
    \A r \in DOMAIN resets :
       /\ vvLog # <<>>
       /\ \A e \in DOMAIN vvLog : vvLog[e].pending
       /\ resets[r].backup = vvLog[Len(vvLog)].v
       /\ resets[r].after = resets[r].backup

\* the reset undid a propagation, with the velocities of a second domain
\* decomposition that differ from those backed up before it
C31_Witness ==
    /\ Len(resets) = 1
    /\ resets[1].before # resets[1].after
    /\ Len(vvLog) >= 2
    /\ vvLog[Len(vvLog)].op = "setLocalState"
    /\ \E e \in DOMAIN vvLog : vvLog[e].v # vvLog[Len(vvLog)].v
    /\ v_ = vvLog[Len(vvLog)].v

\* the run functions scheduleTask registered for a step, in order
RegisteredAt(step) == SelectSeq(registered, LAMBDA task : task.step = step)
FnsAt(step) == [i \in DOMAIN RegisteredAt(step) |-> RegisteredAt(step)[i].fn]
ResetsRegistered == SelectSeq(registered, LAMBDA task : task.fn = "resetVelocities")
StepsScheduled == {registered[i].step : i \in DOMAIN registered}

\* C32: the velocity reset is registered at most once, by the first
\* scheduleTask, after which it is not pending; and each step registers the
\* reset (if any), then the copy of the positions, then the state save, the
\* save exactly at a write-out step or at the last step with
\* final-configuration writing
C32_ResetOnceAndRegistrationOrder ==
    /\ Len(ResetsRegistered) <= 1
    /\ ResetsRegistered # <<>> =>
          /\ registered[1].fn = "resetVelocities"
          /\ ResetsRegistered[1].step = 0
    /\ StepsScheduled # {} => ~vvResetVelocities_
    /\ \A step \in StepsScheduled :
          LET reset == IF \E i \in DOMAIN registered :
                             registered[i].fn = "resetVelocities" /\ registered[i].step = step
                       THEN <<"resetVelocities">> ELSE <<>>
              save == IF isStateWritingStep(elParams, step)
                         \/ (step = lastStep_ /\ elParams.writeFinalConfiguration_)
                      THEN <<"saveState">> ELSE <<>>
          IN  FnsAt(step) = reset \o <<"copyPosition">> \o save

\* a run registered the reset at its first step and nothing but the copy at
\* a later one, and a state save at another
C32_Witness ==
    /\ Len(ResetsRegistered) = 1
    /\ \E step \in StepsScheduled : FnsAt(step) = <<"copyPosition">>
    /\ \E step \in StepsScheduled : step > 0 /\ FnsAt(step) = <<"copyPosition", "saveState">>
    /\ FnsAt(0) = <<"resetVelocities", "copyPosition", "saveState">>

\* copyPosition() returned
CopyReturned == \A th \in Threads : th < ompCfg.nth => cth[th] = "returned"

\* C33: the ranges of the threads lie within the local atoms and no atom is
\* copied by two threads; when copyPosition() has returned every local atom
\* was copied by exactly one thread, the previous positions equal the
\* positions and the previous box equals the box
C33_CopyCoversEachAtomOnce ==
    /\ \A th \in Threads :
          th < ompCfg.nth =>
             /\ 0 <= startAtom(ompCfg, th, localNAtoms_)
             /\ startAtom(ompCfg, th, localNAtoms_) <= endAtom(ompCfg, th, localNAtoms_)
             /\ endAtom(ompCfg, th, localNAtoms_) <= localNAtoms_
    /\ \A i \in DOMAIN copiedBy : Cardinality(copiedBy[i]) <= 1
    /\ CopyReturned =>
          /\ \A i \in 0 .. localNAtoms_ - 1 :
                Cardinality(copiedBy[i]) = 1 /\ previousX_[i] = x_[i]
          /\ \A i \in DOMAIN copiedBy : i >= localNAtoms_ => copiedBy[i] = {}
          /\ previousBox_ = box_

\* a copy by several threads returned: two threads copied atoms, with ranges
\* of blocks of more than one atom, and the positions are not all the same
C33_Witness ==
    /\ CopyReturned
    /\ ompCfg.nth = MaxThreads /\ ompCfg.blockSize > 1
    /\ localNAtoms_ = MaxLocalAtoms
    /\ \E i, j \in DOMAIN copiedBy : copiedBy[i] # {} /\ copiedBy[j] # {} /\ copiedBy[i] # copiedBy[j]
    /\ \E i, j \in DOMAIN x_ : x_[i] # x_[j]
    /\ previousX_ = x_

\* C37: after any number of properly nested start/stop pairs of two
\* counters, both counted that number of calls, and the enclosing counter
\* holds at least the cycles of the enclosed one
C37_NestedCountersAgree ==
    tpc = "idle" =>
       LET probe == wallcycle_get(wcycle, probeOf(timingTest))
           ref == wallcycle_get(wcycle, refOf(timingTest))
       IN  /\ probe.n = ref.n
           /\ probe.n = pairs
           /\ ref.c >= probe.c

\* two pairs ran and the enclosing counter holds more cycles than the
\* enclosed one, which holds some
C37_Witness ==
    /\ tpc = "idle" /\ pairs = MaxPairs
    /\ wallcycle_get(wcycle, probeOf(timingTest)).n = MaxPairs
    /\ wallcycle_get(wcycle, probeOf(timingTest)).c > 0
    /\ wallcycle_get(wcycle, refOf(timingTest)).c > wallcycle_get(wcycle, probeOf(timingTest)).c

\* the starts and stops of one counter, in order
EventsOf(name) == SelectSeq(wcLog, LAMBDA e : e.name = name)

\* a counter is never stopped unless it is started, nor started twice
StartsAndStopsAlternate(name) ==
    \A k \in DOMAIN EventsOf(name) :
       EventsOf(name)[k].op = IF k % 2 = 1 THEN "start" ELSE "stop"

\* every start of the counter was followed by its stop
EveryStartStopped(name) == Len(EventsOf(name)) % 2 = 0

\* C36: in nbnxn_kernel_cpu no sub-counter is stopped without having been
\* started, and when the function has returned every started sub-counter
\* was stopped, for every number of pair lists including zero
C36_AsStated ==
    /\ \A name \in WallCycleSubCounters : StartsAndStopsAlternate(name)
    /\ kpc = "returned" =>
          \A name \in WallCycleSubCounters : EveryStartStopped(name)

\* the same with at least one pair list
C36_BalancedWithAList ==
    kernelCfg.numLists > 0 =>
       /\ \A name \in WallCycleSubCounters : StartsAndStopsAlternate(name)
       /\ kpc = "returned" =>
             /\ \A name \in WallCycleSubCounters : EveryStartStopped(name)
             /\ useCycleSubcounters =>
                   /\ wcycle["NonbondedClear"].n = 1
                   /\ wcycle["NonbondedKernel"].n = 1

\* the sum of term[th] over the first n lists
RECURSIVE SumLists(_, _)
SumLists(n, term) == IF n = 0 THEN 0 ELSE term[n - 1] + SumLists(n - 1, term)

\* what the kernels of all lists add to dV/dlambda of type j at lambda
DvdlOfLists(lambda, j) ==
    SumLists(fepCfg.numLists, [th \in Lists |-> kernelDvdlOf(fepCfg, th, lambda, j)])

\* what the kernels of all lists add to one energy term at lambda
EnergyOfLists(lambda) ==
    SumLists(fepCfg.numLists, [th \in Lists |-> kernelEnergyOf(fepCfg, th, lambda)])

\* the kernels at the current lambda have run and their dV/dlambda was added
DvdlAdded == fpc \in {"foreignLoop", "foreign", "stop", "returned"}

\* C34: dispatchFreeEnergyKernel adds the dV/dlambda of the kernels, per
\* coupling type, to the non-linear dV/dlambda when sc_alpha is non-zero and
\* to the linear one otherwise, and leaves the other one as it was; without
\* free-energy lists no energy data is changed
C34_DvdlAddedToOneAccumulator ==
    /\ (~fepCfg.haveFep \/ fepCfg.nrj[0] = 0) =>
          /\ fepEnerd = StartEnerd(fepCfg)
          /\ fpc \in {"idle", "returned"}
    /\ (fepCfg.haveFep /\ fepCfg.nrj[0] # 0) =>
          \A j \in CouplingTypes :
             LET added == IF DvdlAdded THEN DvdlOfLists(CurrentLambda, j) ELSE 0
                 start == StartEnerd(fepCfg)
             IN  IF fepCfg.sc_alpha # 0
                 THEN /\ fepEnerd.dvdl_nonlin[j] = start.dvdl_nonlin[j] + added
                      /\ fepEnerd.dvdl_lin[j] = start.dvdl_lin[j]
                 ELSE /\ fepEnerd.dvdl_lin[j] = start.dvdl_lin[j] + added
                      /\ fepEnerd.dvdl_nonlin[j] = start.dvdl_nonlin[j]

C34_Witness ==
    /\ fpc = "returned"
    /\ fepCfg.haveFep /\ fepCfg.sc_alpha # 0 /\ fepCfg.numLists > 1
    /\ fepCfg.nrj[1] # 0
    /\ Len(accumulated) > 1
    /\ \A j \in CouplingTypes :
          /\ fepEnerd.dvdl_nonlin[j] > StartEnerd(fepCfg).dvdl_nonlin[j]
          /\ fepEnerd.dvdl_lin[j] = StartEnerd(fepCfg).dvdl_lin[j]

\* C35: kernels run at foreign lambdas only when n_lambda > 0, dH/dlambda
\* is computed and sc_alpha is non-zero; then they run for the indices
\* 0..numLambdas in order, index 0 at the current lambda, without the force
\* and shift-force flags, and what is accumulated for index i is the energy
\* and dV/dlambda of the kernels at the lambdas of index i alone
C35_ForeignLambdaPasses ==
    /\ \A call \in kernelCalls :
          call.pass = "foreign" =>
             /\ fepCfg.n_lambda > 0 /\ fepCfg.computeDhdl /\ fepCfg.sc_alpha # 0
             /\ call.i \in 0 .. fepCfg.n_lambda
             /\ "GMX_NONBONDED_DO_FORCE" \notin call.flags
             /\ "GMX_NONBONDED_DO_SHIFTFORCE" \notin call.flags
             /\ \A j \in CouplingTypes :
                   call.lambda[j] = IF call.i = 0 THEN CurrentLambda[j]
                                    ELSE all_lambda[j][call.i - 1]
    /\ \A k \in DOMAIN accumulated :
          LET lam == [j \in CouplingTypes |->
                         IF k = 1 THEN CurrentLambda[j] ELSE all_lambda[j][k - 2]]
          IN  /\ accumulated[k].i = k - 1
              /\ accumulated[k].energy = EnergyOfLists(lam) + EnergyOfLists(lam)
              /\ accumulated[k].dhdl = DvdlOfLists(lam, "Vdw") + DvdlOfLists(lam, "Coul")
              /\ \A th \in Lists :
                    th < fepCfg.numLists =>
                       \E call \in kernelCalls :
                          call.pass = "foreign" /\ call.i = k - 1 /\ call.th = th
    /\ fpc \in {"stop", "returned"} /\ fepCfg.haveFep /\ fepCfg.nrj[0] # 0 =>
          /\ Len(accumulated)
                = IF fepCfg.n_lambda > 0 /\ fepCfg.computeDhdl /\ fepCfg.sc_alpha # 0
                  THEN 1 + fepCfg.n_lambda ELSE 0
          /\ \A k \in DOMAIN accumulated :
                fepEnerd.foreignLambdaTerms[k - 1]
                   = [energy |-> accumulated[k].energy, dhdl |-> accumulated[k].dhdl]
    /\ DvdlAdded /\ fepCfg.haveFep /\ fepCfg.nrj[0] # 0 =>
          /\ forceWithShiftForces.f
                = IF fepCfg.computeForces
                  THEN SumLists(fepCfg.numLists, fepCfg.nrj) ELSE 0
          /\ forceWithShiftForces.fshift
                = IF fepCfg.computeVirial
                  THEN SumLists(fepCfg.numLists, fepCfg.nrj) ELSE 0

C35_Witness ==
    /\ fpc = "returned"
    /\ fepCfg.computeForces /\ fepCfg.computeVirial /\ fepCfg.numLists > 1
    /\ fepCfg.nrj[1] # 0
    /\ fepCfg.n_lambda > 1
    /\ Len(accumulated) = 1 + fepCfg.n_lambda
    /\ accumulated[1].energy > 0
    /\ accumulated[2].energy > accumulated[1].energy
    /\ accumulated[3].dhdl > accumulated[2].dhdl
    /\ forceWithShiftForces.f > 0

====
